---- MODULE Spec2Model ----
(***************************************************************************)
(* Model of the FBX scene extraction pipeline of fbx-viewer:               *)
(*   - the Scene arena and its index types        (src/src/data/scene.rs)  *)
(*   - the polygon triangulator     (src/src/fbx/v7400/triangulator.rs)    *)
(*   - the v7400 Loader                           (src/src/fbx/v7400.rs)   *)
(*                                                                         *)
(* Indices are 0-based as in the source; a Rust Vec is a TLA+ sequence, so *)
(* element i of a Vec is seq[i + 1].  Option<T> is a sequence of length at *)
(* most one.  Floating point coordinates are small integers, on which the  *)
(* f64 arithmetic of the source is exact.                                  *)
(***************************************************************************)
EXTENDS Integers, Sequences, FiniteSets, TLC

VARIABLES
    scene,      \* SpecScene: the Scene that the add_* calls build
    issued,     \* SpecScene: the indices issued so far, with the element added
    tri_in,     \* SpecTri: arguments of one triangulator call
    tri_out,    \* SpecTri: its return value and the results vector afterwards
    self,       \* SpecLoad: the Loader (scene and the four index maps)
    doc,        \* SpecLoad: the objects self.doc.objects() has yielded so far
    ret         \* SpecLoad: the value Loader::load returned

vars == <<scene, issued, tri_in, tri_out, self, doc, ret>>

(***************************************************************************)
(* Option, slices                                                          *)
(***************************************************************************)
None == <<>>

Some(v) == <<v>>

IsSome(o) == Len(o) = 1

Unwrap(o) == o[1]

\* slice::get: the element at 0-based position i, if any.
Get(seq, i) == IF i >= 0 /\ i < Len(seq) THEN Some(seq[i + 1]) ELSE None

(***************************************************************************)
(* data/scene.rs                                                           *)
(***************************************************************************)
Scene_new ==
    [name |-> None, geometry_meshes |-> <<>>, materials |-> <<>>,
     meshes |-> <<>>, textures |-> <<>>]

\* The index is taken from self.meshes.len(), as the source does.
add_geometry_mesh(s, mesh) ==
    [scene |-> [s EXCEPT !.geometry_meshes = Append(@, mesh)],
     index |-> Len(s.meshes)]

geometry_mesh(s, i) == Get(s.geometry_meshes, i)

\* An add_material that reads the length after the push.
add_material_after_push(s, material) ==
    [scene |-> [s EXCEPT !.materials = Append(@, material)],
     index |-> Len(s.materials) + 1]

add_material(s, material) ==
    [scene |-> [s EXCEPT !.materials = Append(@, material)],
     index |-> Len(s.materials)]

material(s, i) == Get(s.materials, i)

add_mesh(s, mesh) ==
    [scene |-> [s EXCEPT !.meshes = Append(@, mesh)],
     index |-> Len(s.meshes)]

mesh(s, i) == Get(s.meshes, i)

add_texture(s, texture) ==
    [scene |-> [s EXCEPT !.textures = Append(@, texture)],
     index |-> Len(s.textures)]

texture(s, i) == Get(s.textures, i)

(***************************************************************************)
(* fbx/v7400/triangulator.rs                                               *)
(*                                                                         *)
(* A point or vector is a tuple <<x, y, z>> (or <<x, y>>) of integers.     *)
(* PolygonVertices is [control_points, polygon_vertices]: the control      *)
(* points of the geometry and its raw polygon vertex array, in which the   *)
(* last corner of every polygon is stored as the bitwise complement        *)
(* (-cpi - 1) of its control point index.  A PolygonVertexIndex is a       *)
(* 0-based position in polygon_vertices.                                   *)
(***************************************************************************)
Sub3(a, b) == <<a[1] - b[1], a[2] - b[2], a[3] - b[3]>>

Sub2(a, b) == <<a[1] - b[1], a[2] - b[2]>>

cross(a, b) ==
    <<a[2] * b[3] - a[3] * b[2], a[3] * b[1] - a[1] * b[3], a[1] * b[2] - a[2] * b[1]>>

dot(a, b) == a[1] * b[1] + a[2] * b[2] + a[3] * b[3]

perp_dot(a, b) == a[1] * b[2] - a[2] * b[1]

Min2(a, b) == IF b < a THEN b ELSE a

Max2(a, b) == IF b > a THEN b ELSE a

\* RawPolygonVertex::to_u32: the control point index a raw entry denotes.
RawToCpi(raw) == IF raw < 0 THEN -raw - 1 ELSE raw

\* PolygonVertices::control_point for a polygon vertex index.
control_point(pvs, pvi) ==
    LET raw == Get(pvs.polygon_vertices, pvi)
    IN  IF IsSome(raw) THEN Get(pvs.control_points, RawToCpi(Unwrap(raw))) ELSE None

get_vec(pvs, pvi) ==
    LET p == control_point(pvs, pvi)
    IN  IF IsSome(p) THEN [ok |-> TRUE, val |-> Unwrap(p)]
        ELSE [ok |-> FALSE, err |-> "IndexOutOfRange"]

RECURSIVE bounding_box_fold(_, _, _)
bounding_box_fold(points, i, minmax) ==
    IF i > Len(points) THEN minmax
    ELSE LET point == points[i]
         IN  bounding_box_fold(points, i + 1,
                 IF minmax = None THEN Some(<<point, point>>)
                 ELSE LET min == Unwrap(minmax)[1]
                          max == Unwrap(minmax)[2]
                      IN  Some(<< <<Min2(min[1], point[1]), Min2(min[2], point[2]),
                                    Min2(min[3], point[3])>>,
                                  <<Max2(max[1], point[1]), Max2(max[2], point[2]),
                                    Max2(max[3], point[3])>> >>))

bounding_box(points) == bounding_box_fold(points, 1, None)

\* A smallest_direction that prefers X to Y when their extents are equal.
smallest_direction_x_first(v) ==
    IF v[1] <= v[2]
    THEN IF v[3] < v[1] THEN "Z" ELSE "X"
    ELSE IF v[3] < v[2] THEN "Z" ELSE "Y"

smallest_direction(v) ==
    IF v[1] < v[2]
    THEN IF v[3] < v[1] THEN "Z" ELSE "X"
    ELSE IF v[3] < v[2] THEN "Z" ELSE "Y"

\* The 2D points of the n >= 5 arm: the axis of smallest extent is dropped.
points_2d(points) ==
    LET bb == Unwrap(bounding_box(points))
        width == Sub3(bb[2], bb[1])
        axis == smallest_direction(width)
    IN  [i \in 1..Len(points) |->
            CASE axis = "X" -> <<points[i][2], points[i][3]>>
              [] axis = "Y" -> <<points[i][1], points[i][3]>>
              [] axis = "Z" -> <<points[i][1], points[i][2]>>]

\* normal_directions[i + 1] is the turn test of vertex i (0-based).
normal_directions(p2d) ==
    LET n == Len(p2d)
    IN  [i \in 1..n |->
            LET cur == p2d[i]
                prev == p2d[((i - 1 + n - 1) % n) + 1]
                next == p2d[((i - 1 + 1) % n) + 1]
                prev_cur == Sub2(prev, cur)
                cur_next == Sub2(cur, next)
            IN  perp_dot(prev_cur, cur_next) > 0]

\* Iterator::position: 0-based position of the first entry equal to sign.
position(dirs, sign) ==
    LET hits == {i \in 1..Len(dirs) : dirs[i] = sign}
    IN  IF hits = {} THEN None
        ELSE Some((CHOOSE i \in hits : \A j \in hits : i <= j) - 1)

\* A fan whose second iterator starts one vertex too late.
fan_skips_vertex(poly_pvis, convex_index) ==
    LET n == Len(poly_pvis)
        convex_pvi == poly_pvis[convex_index + 1]
    IN  [k \in 1..(n - 2) |->
            <<convex_pvi,
              poly_pvis[((convex_index + 1 + (k - 1)) % n) + 1],
              poly_pvis[((convex_index + 3 + (k - 1)) % n) + 1]>>]

\* A fan that lists the two moving vertices of every triangle in reverse.
fan_swapped(poly_pvis, convex_index) ==
    LET n == Len(poly_pvis)
        convex_pvi == poly_pvis[convex_index + 1]
    IN  [k \in 1..(n - 2) |->
            <<convex_pvi,
              poly_pvis[((convex_index + 2 + (k - 1)) % n) + 1],
              poly_pvis[((convex_index + 1 + (k - 1)) % n) + 1]>>]

\* The triangles pushed by the fan loop, anchored at convex_index.
fan(poly_pvis, convex_index) ==
    LET n == Len(poly_pvis)
        convex_pvi == poly_pvis[convex_index + 1]
    IN  [k \in 1..(n - 2) |->
            <<convex_pvi,
              poly_pvis[((convex_index + 1 + (k - 1)) % n) + 1],
              poly_pvis[((convex_index + 2 + (k - 1)) % n) + 1]>>]

\* The first failing get_vec of the polygon, if any (collect::<Result<..>>).
first_get_vec_err(pvs, poly_pvis) ==
    LET bad == {i \in 1..Len(poly_pvis) : ~get_vec(pvs, poly_pvis[i]).ok}
    IN  IF bad = {} THEN None
        ELSE Some(get_vec(pvs, poly_pvis[CHOOSE i \in bad : \A j \in bad : i <= j]).err)

\* A quad arm that pushes the first triangle of the split only.
triangulator_quad_single_triangle(pvs, poly_pvis, results) ==
    IF IsSome(first_get_vec_err(pvs, poly_pvis))
    THEN [ok |-> FALSE, err |-> Unwrap(first_get_vec_err(pvs, poly_pvis)), results |-> results]
    ELSE [ok |-> TRUE, err |-> "",
          results |-> Append(results, <<poly_pvis[1], poly_pvis[2], poly_pvis[3]>>)]

\* A quad arm that winds its second triangle the other way round.
triangulator_quad_second_reversed(pvs, poly_pvis, results) ==
    IF IsSome(first_get_vec_err(pvs, poly_pvis))
    THEN [ok |-> FALSE, err |-> Unwrap(first_get_vec_err(pvs, poly_pvis)), results |-> results]
    ELSE [ok |-> TRUE, err |-> "",
          results |-> results \o
              << <<poly_pvis[1], poly_pvis[2], poly_pvis[3]>>,
                 <<poly_pvis[1], poly_pvis[4], poly_pvis[3]>> >>]

\* A quad arm that always cuts along the diagonal between corners 0 and 2.
triangulator_quad_always_02(pvs, poly_pvis, results) ==
    IF IsSome(first_get_vec_err(pvs, poly_pvis))
    THEN [ok |-> FALSE, err |-> Unwrap(first_get_vec_err(pvs, poly_pvis)), results |-> results]
    ELSE [ok |-> TRUE, err |-> "",
          results |-> results \o
              << <<poly_pvis[1], poly_pvis[2], poly_pvis[3]>>,
                 <<poly_pvis[3], poly_pvis[4], poly_pvis[1]>> >>]

triangulator_quad(pvs, poly_pvis, results) ==
    LET e == first_get_vec_err(pvs, poly_pvis)
    IN  IF IsSome(e) THEN [ok |-> FALSE, err |-> Unwrap(e), results |-> results]
        ELSE LET p0 == get_vec(pvs, poly_pvis[1]).val
                 p1 == get_vec(pvs, poly_pvis[2]).val
                 p2 == get_vec(pvs, poly_pvis[3]).val
                 p3 == get_vec(pvs, poly_pvis[4]).val
                 n1 == cross(Sub3(p0, p1), Sub3(p1, p2))
                 n3 == cross(Sub3(p2, p3), Sub3(p3, p0))
             IN  IF dot(n1, n3) >= 0
                 THEN [ok |-> TRUE, err |-> "",
                       results |-> results \o
                           << <<poly_pvis[1], poly_pvis[2], poly_pvis[3]>>,
                              <<poly_pvis[3], poly_pvis[4], poly_pvis[1]>> >>]
                 ELSE [ok |-> TRUE, err |-> "",
                       results |-> results \o
                           << <<poly_pvis[1], poly_pvis[2], poly_pvis[4]>>,
                              <<poly_pvis[4], poly_pvis[2], poly_pvis[3]>> >>]

\* An n-gon arm that pushes the fan from vertex 0 before it tests the polygon.
triangulator_ngon_pushes_first(pvs, poly_pvis, results) ==
    LET n == Len(poly_pvis)
        e == first_get_vec_err(pvs, poly_pvis)
        pushed == results \o fan(poly_pvis, 0)
    IN  IF IsSome(e) THEN [ok |-> FALSE, err |-> Unwrap(e), results |-> results]
        ELSE LET points == [i \in 1..n |-> get_vec(pvs, poly_pvis[i]).val]
                 dirs == normal_directions(points_2d(points))
                 dirs_true_count == Cardinality({i \in 1..n : dirs[i]})
             IN  IF dirs_true_count <= 1 \/ dirs_true_count >= n - 1
                 THEN [ok |-> TRUE, err |-> "", results |-> pushed]
                 ELSE [ok |-> FALSE, err |-> "UnsupportedPolygon", results |-> pushed]

\* An n-gon arm that accepts one winding only: it fans when at most one turn
\* test is true and refuses every other polygon.
triangulator_ngon_one_winding(pvs, poly_pvis, results) ==
    LET n == Len(poly_pvis)
        e == first_get_vec_err(pvs, poly_pvis)
    IN  IF IsSome(e) THEN [ok |-> FALSE, err |-> Unwrap(e), results |-> results]
        ELSE LET points == [i \in 1..n |-> get_vec(pvs, poly_pvis[i]).val]
                 dirs == normal_directions(points_2d(points))
                 dirs_true_count == Cardinality({i \in 1..n : dirs[i]})
             IN  IF dirs_true_count <= 1
                 THEN LET pos == position(dirs, TRUE)
                          convex_index == IF IsSome(pos) THEN Unwrap(pos) ELSE 0
                      IN  [ok |-> TRUE, err |-> "",
                           results |-> results \o fan(poly_pvis, convex_index)]
                 ELSE [ok |-> FALSE, err |-> "UnsupportedPolygon", results |-> results]

\* An n-gon arm that anchors every fan at vertex 0.
triangulator_ngon_anchor_zero(pvs, poly_pvis, results) ==
    LET n == Len(poly_pvis)
        e == first_get_vec_err(pvs, poly_pvis)
    IN  IF IsSome(e) THEN [ok |-> FALSE, err |-> Unwrap(e), results |-> results]
        ELSE LET points == [i \in 1..n |-> get_vec(pvs, poly_pvis[i]).val]
                 dirs == normal_directions(points_2d(points))
                 dirs_true_count == Cardinality({i \in 1..n : dirs[i]})
             IN  IF dirs_true_count <= 1 \/ dirs_true_count >= n - 1
                 THEN [ok |-> TRUE, err |-> "", results |-> results \o fan(poly_pvis, 0)]
                 ELSE [ok |-> FALSE, err |-> "UnsupportedPolygon", results |-> results]

triangulator_ngon(pvs, poly_pvis, results) ==
    LET n == Len(poly_pvis)
        e == first_get_vec_err(pvs, poly_pvis)
    IN  IF IsSome(e) THEN [ok |-> FALSE, err |-> Unwrap(e), results |-> results]
        ELSE LET points == [i \in 1..n |-> get_vec(pvs, poly_pvis[i]).val]
                 dirs == normal_directions(points_2d(points))
                 dirs_true_count == Cardinality({i \in 1..n : dirs[i]})
             IN  IF dirs_true_count <= 1 \/ dirs_true_count >= n - 1
                 THEN LET minor_sign == dirs_true_count <= 1
                          pos == position(dirs, minor_sign)
                          convex_index == IF IsSome(pos) THEN Unwrap(pos) ELSE 0
                      IN  [ok |-> TRUE, err |-> "",
                           results |-> results \o fan(poly_pvis, convex_index)]
                 ELSE [ok |-> FALSE, err |-> "UnsupportedPolygon", results |-> results]

\* triangulator(pvs, poly_pvis, &mut results): ok/err plus the results vector
\* as the call leaves it.
triangulator(pvs, poly_pvis, results) ==
    LET n == Len(poly_pvis)
    IN  CASE n <= 2 -> [ok |-> FALSE, err |-> "NotEnoughVertices", results |-> results]
          [] n = 3 ->
                [ok |-> TRUE, err |-> "",
                 results |-> Append(results, <<poly_pvis[1], poly_pvis[2], poly_pvis[3]>>)]
          [] n = 4 -> triangulator_quad(pvs, poly_pvis, results)
          [] OTHER -> triangulator_ngon(pvs, poly_pvis, results)

(***************************************************************************)
(* The document (fbxcel_dom::v7400::Document) as the Loader reads it.      *)
(*                                                                         *)
(* Geometry, material, texture and video clip objects are identified by    *)
(* their ObjectId, a string; the tables below give each object's content.  *)
(* A mesh model object names its geometry object and its material objects  *)
(* in order.  Every object is named after its id.                          *)
(***************************************************************************)
\* Control points of the larger sample geometry: a pentagon in
\* convex position (slightly out of plane) and a point inside it.
SamplePoints ==
    << <<0, 0, 0>>, <<4, 0, 0>>, <<5, 3, 1>>, <<2, 5, 0>>, <<-1, 3, 1>>, <<2, 2, 0>> >>

UnitSquare == << <<0, 0, 0>>, <<2, 0, 0>>, <<2, 2, 0>>, <<0, 2, 0>> >>

PerCorner(n) == Some([mapping_mode |-> "ByPolygonVertex", len |-> n])

PerControlPoint(n) == Some([mapping_mode |-> "ByControlPoint", len |-> n])

MaterialsOf(mode, indices) == Some([mapping_mode |-> mode, indices |-> indices])

GeometryObjs ==
    [gQuad |->
        \* one quad, every corner in material slot 0
        [control_points |-> UnitSquare, polygon_vertices |-> <<0, 1, 2, -4>>,
         layers |-> <<[normals |-> PerCorner(4), uv |-> PerCorner(4),
                       materials |-> MaterialsOf("AllSame", <<0>>)]>>],
     gTriPent |->
        \* a triangle in slot 0 and a convex pentagon in slot 1
        [control_points |-> SamplePoints,
         polygon_vertices |-> <<0, 1, -6, 0, 1, 2, 3, -5>>,
         layers |-> <<[normals |-> PerControlPoint(6), uv |-> PerCorner(8),
                       materials |-> MaterialsOf("ByPolygon", <<0, 1>>)]>>],
     gPolygons |->
        \* a triangle, a convex pentagon and a quad, every corner in material slot 0
        [control_points |-> SamplePoints,
         polygon_vertices |-> <<0, 1, -6, 0, 1, 2, 3, -5, 0, 1, 2, -4>>,
         layers |-> <<[normals |-> PerCorner(12), uv |-> PerControlPoint(6),
                       materials |-> MaterialsOf("AllSame", <<0>>)]>>],
     gEmpty |->
        \* no polygon at all
        [control_points |-> <<>>, polygon_vertices |-> <<>>,
         layers |-> <<[normals |-> PerCorner(0), uv |-> PerCorner(0),
                       materials |-> MaterialsOf("AllSame", <<0>>)]>>],
     gTwoVertices |->
        \* a quad followed by a polygon of two vertices
        [control_points |-> UnitSquare, polygon_vertices |-> <<0, 1, 2, -4, 0, -2>>,
         layers |-> <<[normals |-> PerCorner(6), uv |-> PerCorner(6),
                       materials |-> MaterialsOf("AllSame", <<0>>)]>>],
     gNoNormals |->
        [control_points |-> UnitSquare, polygon_vertices |-> <<0, 1, 2, -4>>,
         layers |-> <<[normals |-> None, uv |-> PerCorner(4),
                       materials |-> MaterialsOf("AllSame", <<0>>)]>>],
     gNoLayer |->
        [control_points |-> UnitSquare, polygon_vertices |-> <<0, 1, 2, -4>>,
         layers |-> <<>>],
     gNoUv |->
        \* the layer has no UV layer element
        [control_points |-> UnitSquare, polygon_vertices |-> <<0, 1, 2, -4>>,
         layers |-> <<[normals |-> PerCorner(4), uv |-> None,
                       materials |-> MaterialsOf("AllSame", <<0>>)]>>],
     gNoMaterialLayer |->
        \* the layer has no material layer element
        [control_points |-> UnitSquare, polygon_vertices |-> <<0, 1, 2, -4>>,
         layers |-> <<[normals |-> PerCorner(4), uv |-> PerCorner(4),
                       materials |-> None]>>],
     gShortUv |->
        \* the UV layer element has fewer entries than the polygon has corners
        [control_points |-> UnitSquare, polygon_vertices |-> <<0, 1, 2, -4>>,
         layers |-> <<[normals |-> PerCorner(4), uv |-> PerCorner(3),
                       materials |-> MaterialsOf("AllSame", <<0>>)]>>],
     gBadCorner |->
        \* a triangle whose last corner names a control point that does not exist
        [control_points |-> UnitSquare, polygon_vertices |-> <<0, 1, -6>>,
         layers |-> <<[normals |-> PerCorner(3), uv |-> PerCorner(3),
                       materials |-> MaterialsOf("AllSame", <<0>>)]>>]]

GeometryIds == DOMAIN GeometryObjs

VideoClipObjs ==
    [cPng |-> [relative_filename |-> Some([ext |-> Some("png")]), content |-> Some("png")],
     cTga |-> [relative_filename |-> Some([ext |-> Some("TGA")]), content |-> Some("tga")],
     cExternal |-> [relative_filename |-> Some([ext |-> Some("png")]), content |-> None],
     cCorrupt |-> [relative_filename |-> Some([ext |-> None]), content |-> Some("garbage")]]

TextureObjs ==
    [tA |-> [wrap_mode_u |-> Some("Repeat"), wrap_mode_v |-> Some("Clamp"),
             video_clip |-> Some("cPng")],
     tB |-> [wrap_mode_u |-> Some("Clamp"), wrap_mode_v |-> Some("Repeat"),
             video_clip |-> Some("cTga")],
     tNoClip |-> [wrap_mode_u |-> Some("Repeat"), wrap_mode_v |-> Some("Repeat"),
                  video_clip |-> None],
     tExternal |-> [wrap_mode_u |-> Some("Repeat"), wrap_mode_v |-> Some("Repeat"),
                    video_clip |-> Some("cExternal")],
     tCorrupt |-> [wrap_mode_u |-> Some("Repeat"), wrap_mode_v |-> Some("Repeat"),
                   video_clip |-> Some("cCorrupt")]]

\* The colour and factor properties of a material: <<color, factor>> each.
Shades(a, d, e) == [ambient |-> a, diffuse |-> d, emissive |-> e]

MaterialObjs ==
    [mLambert |->
        [shading_model |-> Some("Lambert"), transparent_texture |-> None,
         diffuse_texture |-> None, props |-> Shades(<<1, 1>>, <<2, 1>>, <<0, 1>>)],
     mPhongTex |->
        [shading_model |-> Some("Phong"), transparent_texture |-> None,
         diffuse_texture |-> Some("tA"), props |-> Shades(<<1, 2>>, <<1, 1>>, <<0, 0>>)],
     mTransp |->
        [shading_model |-> Some("Lambert"), transparent_texture |-> Some("tA"),
         diffuse_texture |-> Some("tB"), props |-> Shades(<<0, 1>>, <<2, 2>>, <<1, 1>>)],
     mUnknown |->
        [shading_model |-> Some("Unknown"), transparent_texture |-> None,
         diffuse_texture |-> None, props |-> Shades(<<1, 1>>, <<1, 1>>, <<1, 1>>)],
     mUnknownTex |->
        [shading_model |-> Some("Unknown"), transparent_texture |-> None,
         diffuse_texture |-> Some("tA"), props |-> Shades(<<1, 1>>, <<1, 1>>, <<1, 1>>)],
     mUnknownCorrupt |->
        [shading_model |-> Some("Unknown"), transparent_texture |-> None,
         diffuse_texture |-> Some("tCorrupt"), props |-> Shades(<<1, 1>>, <<1, 1>>, <<1, 1>>)],
     mNoClip |->
        [shading_model |-> Some("Lambert"), transparent_texture |-> None,
         diffuse_texture |-> Some("tNoClip"), props |-> Shades(<<1, 1>>, <<1, 1>>, <<1, 1>>)],
     mExternal |->
        [shading_model |-> Some("Lambert"), transparent_texture |-> Some("tExternal"),
         diffuse_texture |-> None, props |-> Shades(<<1, 1>>, <<1, 1>>, <<1, 1>>)],
     mCorrupt |->
        [shading_model |-> Some("Phong"), transparent_texture |-> None,
         diffuse_texture |-> Some("tCorrupt"), props |-> Shades(<<1, 1>>, <<1, 1>>, <<1, 1>>)]]

MaterialIds == DOMAIN MaterialObjs

\* Object::name(): every object of the document carries its id as its name.
ObjName(id) == Some(id)

(***************************************************************************)
(* fbxcel_dom: PolygonVertices::triangulate_each and the TriangleVertices  *)
(* it returns, as far as fbx/v7400.rs uses them.                           *)
(*   tri_pv_indices[tri_vi + 1]: the polygon vertex index of a corner      *)
(*   tri_poly_indices[t + 1]:    the polygon triangle t was cut from       *)
(***************************************************************************)
\* 0-based position of the first polygon end mark at or after start, if any.
PolygonEnd(polygon_vertices, start) ==
    LET ends == {i \in (start + 1)..Len(polygon_vertices) : polygon_vertices[i] < 0}
    IN  IF ends = {} THEN None
        ELSE Some((CHOOSE i \in ends : \A j \in ends : i <= j) - 1)

Flatten3(tris) == [i \in 1..(3 * Len(tris)) |-> tris[((i - 1) \div 3) + 1][((i - 1) % 3) + 1]]

\* One polygon of triangulate_each: r is what the triangulator returned for it.
RECURSIVE triangulate_each_from(_, _, _, _)
triangulate_each_polygon(pvs, pv_index_next_start, current_poly_index, acc, r) ==
    IF ~r.ok THEN [ok |-> FALSE, err |-> r.err, val |-> acc]
    ELSE triangulate_each_from(pvs, pv_index_next_start, current_poly_index + 1,
             [tri_pv_indices |-> acc.tri_pv_indices \o Flatten3(r.results),
              tri_poly_indices |-> acc.tri_poly_indices \o
                  [t \in 1..Len(r.results) |-> current_poly_index]])

\* The loop of triangulate_each from polygon vertex pv_index_start on; the
\* results vector handed to the triangulator is cleared for every polygon.
triangulate_each_from(pvs, pv_index_start, current_poly_index, acc) ==
    IF pv_index_start >= Len(pvs.polygon_vertices) THEN [ok |-> TRUE, err |-> "", val |-> acc]
    ELSE IF PolygonEnd(pvs.polygon_vertices, pv_index_start) = None
    THEN [ok |-> FALSE, err |-> "IncompletePolygon", val |-> acc]
    ELSE triangulate_each_polygon(pvs,
             Unwrap(PolygonEnd(pvs.polygon_vertices, pv_index_start)) + 1,
             current_poly_index, acc,
             triangulator(pvs,
                 [i \in 1..(Unwrap(PolygonEnd(pvs.polygon_vertices, pv_index_start)) + 1
                                - pv_index_start) |-> pv_index_start + i - 1],
                 <<>>))

triangulate_each(pvs) ==
    triangulate_each_from(pvs, 0, 0, [tri_pv_indices |-> <<>>, tri_poly_indices |-> <<>>])

\* TriangleVertices::triangle_vertex_indices(): 0 .. 3 * triangles - 1.
triangle_vertex_indices(tvs) == [i \in 1..Len(tvs.tri_pv_indices) |-> i - 1]

\* TriangleVertices::control_point_index(tri_vi).
tri_control_point_index(pvs, tvs, tri_vi) ==
    LET raw == Get(pvs.polygon_vertices, tvs.tri_pv_indices[tri_vi + 1])
    IN  IF IsSome(raw) THEN Some(RawToCpi(Unwrap(raw))) ELSE None

\* The entry of a normal or UV layer element that belongs to a triangle corner.
layer_element_index(elem, pvs, tvs, tri_vi) ==
    LET i == CASE elem.mapping_mode = "ByControlPoint" ->
                     tri_control_point_index(pvs, tvs, tri_vi)
               [] elem.mapping_mode = "ByPolygonVertex" ->
                     Some(tvs.tri_pv_indices[tri_vi + 1])
               [] OTHER -> None
    IN  IF IsSome(i) /\ Unwrap(i) < elem.len THEN i ELSE None

\* Materials::material_index(tvs, tri_vi): the mesh-local material slot.
material_index(elem, tvs, tri_vi) ==
    CASE elem.mapping_mode = "AllSame" -> Get(elem.indices, 0)
      [] elem.mapping_mode = "ByPolygon" ->
            Get(elem.indices, tvs.tri_poly_indices[(tri_vi \div 3) + 1])
      [] OTHER -> None


(***************************************************************************)
(* fbx/v7400.rs: the Loader                                                *)
(*                                                                         *)
(* A HashMap is a set of <<key, value>> pairs.  A method taking &mut self  *)
(* and returning Fallible<T> is an operator on the Loader ld that returns  *)
(* [ok, self, val, err]: the Loader as the call leaves it, the value, and  *)
(* on failure the error chain, outermost context first.  Each entry of the *)
(* chain is [msg, obj]: the message and the object its text formats.       *)
(* A method is written as a chain of operators, one per fallible step, so  *)
(* that every intermediate value is computed once.                         *)
(***************************************************************************)
Loader_new ==
    [scene |-> Scene_new, geometry_mesh_indices |-> {}, material_indices |-> {},
     mesh_indices |-> {}, texture_indices |-> {}]

\* HashMap::get
MapGet(m, k) ==
    IF \E e \in m : e[1] = k THEN Some((CHOOSE e \in m : e[1] = k)[2]) ELSE None

Ok(ld, v) == [ok |-> TRUE, self |-> ld, val |-> v, err |-> <<>>]

Err(ld, msg, obj) ==
    [ok |-> FALSE, self |-> ld, val |-> None, err |-> <<[msg |-> msg, obj |-> obj]>>]

\* ResultExt::with_context: wraps the error of a failed call in one more context.
with_context(r, msg) ==
    IF r.ok THEN r ELSE [r EXCEPT !.err = <<[msg |-> msg, obj |-> None]>> \o @]

\* Ok(self.scene.add_*(entity)): added is what the add_* call returned.
OkAdded(ld, added) == Ok([ld EXCEPT !.scene = added.scene], added.index)

\* collect::<Result<Vec<_>, _>>(): all values, or the first error.
collect(results) ==
    IF \A k \in 1..Len(results) : results[k].ok
    THEN [ok |-> TRUE, err |-> "", val |-> [k \in 1..Len(results) |-> results[k].val]]
    ELSE [ok |-> FALSE,
          err |-> results[CHOOSE k \in 1..Len(results) :
                              ~results[k].ok /\ \A j \in 1..(k - 1) : results[j].ok].err,
          val |-> <<>>]

\* str::to_ascii_lowercase on the file extensions of the document.
to_ascii_lowercase(str) ==
    CASE str = "TGA" -> "tga"
      [] str = "PNG" -> "png"
      [] OTHER -> str

\* image::load_from_memory_with_format(content, TGA) and image::load_from_memory:
\* the latter guesses the format from the content, which TGA data does not allow.
image_load(content, format) ==
    CASE format = Some("tga") -> IF content = "tga" THEN Some([decoded |-> content]) ELSE None
      [] OTHER -> IF content = "png" THEN Some([decoded |-> content]) ELSE None

\* The match on the lowercased extension of the relative filename.
load_video_clip_content(ld, file_ext, content) ==
    IF file_ext = Some("tga")
    THEN IF image_load(content, Some("tga")) = None
         THEN Err(ld, "Failed to load TGA image", None)
         ELSE Ok(ld, Unwrap(image_load(content, Some("tga"))))
    ELSE IF image_load(content, None) = None
         THEN Err(ld, "Failed to load image", None)
         ELSE Ok(ld, Unwrap(image_load(content, None)))

load_video_clip(ld, clip_id) ==
    IF VideoClipObjs[clip_id].relative_filename = None
    THEN Err(ld, "Failed to get relative filename of texture image", None)
    ELSE IF VideoClipObjs[clip_id].content = None
    THEN Err(ld, "Currently, only embedded texture is supported", None)
    ELSE load_video_clip_content(ld,
             IF IsSome(Unwrap(VideoClipObjs[clip_id].relative_filename).ext)
             THEN Some(to_ascii_lowercase(
                          Unwrap(Unwrap(VideoClipObjs[clip_id].relative_filename).ext)))
             ELSE None,
             Unwrap(VideoClipObjs[clip_id].content))

\* RawWrapMode::Repeat => WrapMode::Repeat, RawWrapMode::Clamp => WrapMode::ClampToEdge
wrap_mode(val) == IF val = "Repeat" THEN "Repeat" ELSE "ClampToEdge"

\* The rest of load_texture once the image has been loaded (img).
load_texture_image(texture_id, texture_obj, transparent, img) ==
    IF ~img.ok THEN img
    ELSE OkAdded(img.self,
             add_texture(img.self.scene,
                 [name |-> ObjName(texture_id),
                  image |-> img.val,
                  transparent |-> transparent,
                  wrap_mode_u |-> wrap_mode(Unwrap(texture_obj.wrap_mode_u)),
                  wrap_mode_v |-> wrap_mode(Unwrap(texture_obj.wrap_mode_v))]))

load_texture_obj(ld, texture_id, texture_obj, transparent) ==
    IF texture_obj.wrap_mode_u = None
    THEN Err(ld, "Failed to load wrap mode for U axis", None)
    ELSE IF texture_obj.wrap_mode_v = None
    THEN Err(ld, "Failed to load wrap mode for V axis", None)
    ELSE IF texture_obj.video_clip = None
    THEN Err(ld, "No image data for texture object", Some(texture_id))
    ELSE load_texture_image(texture_id, texture_obj, transparent,
             with_context(load_video_clip(ld, Unwrap(texture_obj.video_clip)),
                          "Failed to load texture image"))

load_texture(ld, texture_id, transparent) ==
    IF IsSome(MapGet(ld.texture_indices, texture_id))
    THEN Ok(ld, Unwrap(MapGet(ld.texture_indices, texture_id)))
    ELSE load_texture_obj(ld, texture_id, TextureObjs[texture_id], transparent)

\* color * factor of one of the ambient / diffuse / emissive property pairs.
shade(material_obj, which) == material_obj.props[which][1] * material_obj.props[which][2]

\* A match with a catch-all arm that builds Lambert data for every shading model.
shading_model_accepts_unknown(v) == v \in {"Lambert", "Phong", "Unknown"}

\* The arm of the match on the shading model that builds ShadingData::Lambert.
shading_model_supported(v) == v \in {"Lambert", "Phong"}

\* A slot choice that looks at the diffuse texture first.
diffuse_texture_slot_prefers_diffuse(material_obj) ==
    IF IsSome(material_obj.diffuse_texture)
    THEN Some(<<FALSE, Unwrap(material_obj.diffuse_texture)>>)
    ELSE IF IsSome(material_obj.transparent_texture)
    THEN Some(<<TRUE, Unwrap(material_obj.transparent_texture)>>)
    ELSE None

\* The texture slot load_material uses: the transparent texture if there is
\* one, else the diffuse texture, as Some(<<transparent, texture>>).
diffuse_texture_slot(material_obj) ==
    IF IsSome(material_obj.transparent_texture)
    THEN Some(<<TRUE, Unwrap(material_obj.transparent_texture)>>)
    ELSE IF IsSome(material_obj.diffuse_texture)
    THEN Some(<<FALSE, Unwrap(material_obj.diffuse_texture)>>)
    ELSE None

\* The rest of load_material once the diffuse texture has been resolved: tex is
\* the outcome of load_texture, with val an Option<TextureIndex>.
load_material_shading(material_id, material_obj, tex) ==
    IF ~tex.ok THEN tex
    ELSE IF material_obj.shading_model = None
    THEN Err(tex.self, "Failed to get shading model", None)
    ELSE IF ~shading_model_supported(Unwrap(material_obj.shading_model))
    THEN Err(tex.self, "Unknown shading model", None)
    ELSE OkAdded(tex.self,
             add_material(tex.self.scene,
                 [name |-> ObjName(material_id),
                  diffuse_texture |-> tex.val,
                  data |-> [tag |-> "Lambert",
                            ambient |-> shade(material_obj, "ambient"),
                            diffuse |-> shade(material_obj, "diffuse"),
                            emissive |-> shade(material_obj, "emissive")]]))

\* Option<Result<T>>::transpose() on Some(r): Ok(v) becomes Ok(Some(v)).
transpose(r) == IF r.ok THEN [r EXCEPT !.val = Some(@)] ELSE r

\* Option::map(load_texture).transpose()
load_diffuse_texture(ld, slot) ==
    IF slot = None THEN Ok(ld, None)
    ELSE transpose(with_context(load_texture(ld, Unwrap(slot)[2], Unwrap(slot)[1]),
                                "Failed to load diffuse texture"))

load_material(ld, material_id) ==
    IF IsSome(MapGet(ld.material_indices, material_id))
    THEN Ok(ld, Unwrap(MapGet(ld.material_indices, material_id)))
    ELSE load_material_shading(material_id, MaterialObjs[material_id],
             load_diffuse_texture(ld, diffuse_texture_slot(MaterialObjs[material_id])))

\* The position of one triangle corner: control point index, then control point.
corner_position(pvs, tvs, tri_vi) ==
    IF tri_control_point_index(pvs, tvs, tri_vi) = None
    THEN [ok |-> FALSE, err |-> "Failed to get control point index"]
    ELSE IF Get(pvs.control_points, Unwrap(tri_control_point_index(pvs, tvs, tri_vi))) = None
    THEN [ok |-> FALSE, err |-> "Failed to get control point"]
    ELSE [ok |-> TRUE, err |-> "",
          val |-> Unwrap(Get(pvs.control_points,
                             Unwrap(tri_control_point_index(pvs, tvs, tri_vi))))]

\* The value of a normal or UV layer element at one triangle corner.
corner_layer_value(elem, pvs, tvs, tri_vi) ==
    IF layer_element_index(elem, pvs, tvs, tri_vi) = None
    THEN [ok |-> FALSE, err |-> "IndexOutOfRange"]
    ELSE [ok |-> TRUE, err |-> "", val |-> Unwrap(layer_element_index(elem, pvs, tvs, tri_vi))]

\* The loop that pushes every triangle corner tri_vi into the sublist of its
\* mesh-local material index, from tri_vi on.
RECURSIVE bucket_corners(_, _, _, _)
\* A bucketing step that does not push the first corner of a triangle.
bucket_corner_drops_first(elem, tvs, tri_vi, indices_per_material, local_material_index) ==
    IF local_material_index = None
    THEN [ok |-> FALSE, err |-> "Failed to get mesh-local material index",
          val |-> indices_per_material]
    ELSE IF Get(indices_per_material, Unwrap(local_material_index)) = None
    THEN [ok |-> FALSE, err |-> "Mesh-local material index out of range",
          val |-> indices_per_material]
    ELSE bucket_corners(elem, tvs, tri_vi + 1,
             IF tri_vi % 3 = 0 THEN indices_per_material
             ELSE [indices_per_material EXCEPT
                      ![Unwrap(local_material_index) + 1] = Append(@, tri_vi)])

\* A bucketing step that leaves out a corner whose index has no sublist.
bucket_corner_skips_out_of_range(elem, tvs, tri_vi, indices_per_material, local_material_index) ==
    IF local_material_index = None
    THEN [ok |-> FALSE, err |-> "Failed to get mesh-local material index",
          val |-> indices_per_material]
    ELSE IF Get(indices_per_material, Unwrap(local_material_index)) = None
    THEN bucket_corners(elem, tvs, tri_vi + 1, indices_per_material)
    ELSE bucket_corners(elem, tvs, tri_vi + 1,
             [indices_per_material EXCEPT
                 ![Unwrap(local_material_index) + 1] = Append(@, tri_vi)])

\* A bucketing step that puts the corner at the front of its sublist.
bucket_corner_prepends(elem, tvs, tri_vi, indices_per_material, local_material_index) ==
    IF local_material_index = None
    THEN [ok |-> FALSE, err |-> "Failed to get mesh-local material index",
          val |-> indices_per_material]
    ELSE IF Get(indices_per_material, Unwrap(local_material_index)) = None
    THEN [ok |-> FALSE, err |-> "Mesh-local material index out of range",
          val |-> indices_per_material]
    ELSE bucket_corners(elem, tvs, tri_vi + 1,
             [indices_per_material EXCEPT
                 ![Unwrap(local_material_index) + 1] = <<tri_vi>> \o @])

bucket_corner(elem, tvs, tri_vi, indices_per_material, local_material_index) ==
    IF local_material_index = None
    THEN [ok |-> FALSE, err |-> "Failed to get mesh-local material index",
          val |-> indices_per_material]
    ELSE IF Get(indices_per_material, Unwrap(local_material_index)) = None
    THEN [ok |-> FALSE, err |-> "Mesh-local material index out of range",
          val |-> indices_per_material]
    ELSE bucket_corners(elem, tvs, tri_vi + 1,
             [indices_per_material EXCEPT
                 ![Unwrap(local_material_index) + 1] = Append(@, tri_vi)])

bucket_corners(elem, tvs, tri_vi, indices_per_material) ==
    IF tri_vi >= Len(tvs.tri_pv_indices)
    THEN [ok |-> TRUE, err |-> "", val |-> indices_per_material]
    ELSE bucket_corner(elem, tvs, tri_vi, indices_per_material,
                       material_index(elem, tvs, tri_vi))

\* The end of load_geometry_mesh: the two length checks and add_geometry_mesh.
load_geometry_mesh_build(ld, geometry_id, positions, normals, uv, indices_per_material) ==
    IF Len(positions) # Len(normals) \/ Len(positions) # Len(uv)
    THEN Err(ld, "Vertices length mismatch", None)
    ELSE OkAdded(ld,
             add_geometry_mesh(ld.scene,
                 [name |-> ObjName(geometry_id),
                  positions |-> positions,
                  normals |-> normals,
                  uv |-> uv,
                  indices_per_material |-> indices_per_material]))

\* indices_per_material: buckets is the outcome of the bucketing loop.
load_geometry_mesh_buckets(ld, geometry_id, positions, normals, uv, buckets) ==
    IF ~buckets.ok THEN Err(ld, buckets.err, None)
    ELSE load_geometry_mesh_build(ld, geometry_id, positions, normals, uv, buckets.val)

\* uv: the expanded UV values; then the material layer element is looked up.
load_geometry_mesh_uv(ld, geometry_id, num_materials, tvs, layer, positions, normals, uv) ==
    IF ~uv.ok
    THEN with_context(Err(ld, uv.err, None), "Failed to reconstruct UV vertices")
    ELSE IF layer.materials = None
    THEN Err(ld, "Materials not found for mesh", Some(geometry_id))
    ELSE load_geometry_mesh_buckets(ld, geometry_id, positions, normals.val, uv.val,
             bucket_corners(Unwrap(layer.materials), tvs, 0,
                            [i \in 1..num_materials |-> <<>>]))

\* A normals stage that gives every corner the UV (0, 0) when the layer has no
\* UV layer element.
load_geometry_mesh_normals_default_uv(ld, geometry_id, num_materials, pvs, tvs, layer, positions, normals) ==
    IF ~normals.ok
    THEN with_context(Err(ld, normals.err, None), "Failed to reconstruct normals vertices")
    ELSE IF layer.uv = None
    THEN load_geometry_mesh_uv(ld, geometry_id, num_materials, tvs, layer, positions, normals,
             [ok |-> TRUE, err |-> "", val |-> [k \in 1..Len(tvs.tri_pv_indices) |-> <<0, 0>>]])
    ELSE load_geometry_mesh_uv(ld, geometry_id, num_materials, tvs, layer, positions, normals,
             collect([k \in 1..Len(tvs.tri_pv_indices) |->
                         corner_layer_value(Unwrap(layer.uv), pvs, tvs, k - 1)]))

\* normals: the expanded normals; then the UV layer element is looked up.
load_geometry_mesh_normals(ld, geometry_id, num_materials, pvs, tvs, layer, positions, normals) ==
    IF ~normals.ok
    THEN with_context(Err(ld, normals.err, None), "Failed to reconstruct normals vertices")
    ELSE IF layer.uv = None THEN Err(ld, "Failed to get UV", None)
    ELSE load_geometry_mesh_uv(ld, geometry_id, num_materials, tvs, layer, positions, normals,
             collect([k \in 1..Len(tvs.tri_pv_indices) |->
                         corner_layer_value(Unwrap(layer.uv), pvs, tvs, k - 1)]))

\* positions: the expanded positions; then the first layer and its normals.
load_geometry_mesh_positions(ld, geometry_id, num_materials, pvs, tvs, layers, positions) ==
    IF ~positions.ok
    THEN with_context(Err(ld, positions.err, None), "Failed to reconstruct position vertices")
    ELSE IF Get(layers, 0) = None THEN Err(ld, "Failed to get layer", None)
    ELSE IF layers[1].normals = None THEN Err(ld, "Failed to get normals", None)
    ELSE load_geometry_mesh_normals(ld, geometry_id, num_materials, pvs, tvs, layers[1],
             positions.val,
             collect([k \in 1..Len(tvs.tri_pv_indices) |->
                         corner_layer_value(Unwrap(layers[1].normals), pvs, tvs, k - 1)]))

\* tri: the outcome of polygon_vertices.triangulate_each(triangulator).
load_geometry_mesh_triangulated(ld, geometry_id, num_materials, pvs, layers, tri) ==
    IF ~tri.ok THEN with_context(Err(ld, tri.err, None), "Triangulation failed")
    ELSE load_geometry_mesh_positions(ld, geometry_id, num_materials, pvs, tri.val, layers,
             collect([k \in 1..Len(tri.val.tri_pv_indices) |->
                         corner_position(pvs, tri.val, k - 1)]))

\* mesh_obj.polygon_vertices()
polygon_vertices(mesh_obj) ==
    [control_points |-> mesh_obj.control_points,
     polygon_vertices |-> mesh_obj.polygon_vertices]

\* A load_geometry_mesh that gives every geometry a single index sublist.
load_geometry_mesh_single_slot(ld, geometry_id, num_materials) ==
    IF IsSome(MapGet(ld.geometry_mesh_indices, geometry_id))
    THEN Ok(ld, Unwrap(MapGet(ld.geometry_mesh_indices, geometry_id)))
    ELSE load_geometry_mesh_triangulated(ld, geometry_id, 1,
             polygon_vertices(GeometryObjs[geometry_id]),
             GeometryObjs[geometry_id].layers,
             triangulate_each(polygon_vertices(GeometryObjs[geometry_id])))

load_geometry_mesh(ld, geometry_id, num_materials) ==
    IF IsSome(MapGet(ld.geometry_mesh_indices, geometry_id))
    THEN Ok(ld, Unwrap(MapGet(ld.geometry_mesh_indices, geometry_id)))
    ELSE load_geometry_mesh_triangulated(ld, geometry_id, num_materials,
             polygon_vertices(GeometryObjs[geometry_id]),
             GeometryObjs[geometry_id].layers,
             triangulate_each(polygon_vertices(GeometryObjs[geometry_id])))

\* mesh_obj.materials().map(load_material).collect(): the indices of the
\* materials from position k on, appended to acc; stops at the first failure.
RECURSIVE load_materials(_, _, _, _)
load_materials_next(material_ids, k, acc, r) ==
    IF ~r.ok THEN r ELSE load_materials(r.self, material_ids, k + 1, Append(acc, r.val))

load_materials(ld, material_ids, k, acc) ==
    IF k > Len(material_ids) THEN Ok(ld, acc)
    ELSE load_materials_next(material_ids, k, acc, load_material(ld, material_ids[k]))

\* The end of load_mesh: geometry_index is the outcome of load_geometry_mesh.
load_mesh_build(mesh_obj, materials, geometry_index) ==
    IF ~geometry_index.ok THEN geometry_index
    ELSE OkAdded(geometry_index.self,
             add_mesh(geometry_index.self.scene,
                 [name |-> ObjName(mesh_obj.id),
                  geometry_mesh_index |-> geometry_index.val,
                  materials |-> materials]))

\* materials: the outcome of loading the materials of the mesh model.
load_mesh_materials(mesh_obj, materials) ==
    IF ~materials.ok THEN materials
    ELSE load_mesh_build(mesh_obj, materials.val,
             with_context(load_geometry_mesh(materials.self, Unwrap(mesh_obj.geometry),
                                             Len(materials.val)),
                          "Failed to load geometry mesh"))

\* A load_mesh that builds the geometry mesh before it loads the materials.
load_mesh_geometry_first_build(mesh_obj, geometry_index, materials) ==
    IF ~materials.ok THEN materials
    ELSE OkAdded(materials.self,
             add_mesh(materials.self.scene,
                 [name |-> ObjName(mesh_obj.id),
                  geometry_mesh_index |-> geometry_index,
                  materials |-> materials.val]))

load_mesh_geometry_first_materials(mesh_obj, geometry_index) ==
    IF ~geometry_index.ok THEN geometry_index
    ELSE load_mesh_geometry_first_build(mesh_obj, geometry_index.val,
             with_context(load_materials(geometry_index.self, mesh_obj.materials, 1, <<>>),
                          "Failed to load materials for mesh"))

load_mesh_geometry_first(ld, mesh_obj) ==
    IF IsSome(MapGet(ld.mesh_indices, mesh_obj.id))
    THEN Ok(ld, Unwrap(MapGet(ld.mesh_indices, mesh_obj.id)))
    ELSE IF mesh_obj.geometry = None THEN Err(ld, "Failed to get geometry", None)
    ELSE load_mesh_geometry_first_materials(mesh_obj,
             with_context(load_geometry_mesh(ld, Unwrap(mesh_obj.geometry),
                                             Len(mesh_obj.materials)),
                          "Failed to load geometry mesh"))

\* mesh_obj is a mesh model object [id, geometry, materials] of the document.
load_mesh(ld, mesh_obj) ==
    IF IsSome(MapGet(ld.mesh_indices, mesh_obj.id))
    THEN Ok(ld, Unwrap(MapGet(ld.mesh_indices, mesh_obj.id)))
    ELSE IF mesh_obj.geometry = None THEN Err(ld, "Failed to get geometry", None)
    ELSE load_mesh_materials(mesh_obj,
             with_context(load_materials(ld, mesh_obj.materials, 1, <<>>),
                          "Failed to load materials for mesh"))

(***************************************************************************)
(* SpecScene: any sequence of Scene::add_* calls                           *)
(***************************************************************************)
MaxAdds == 3

EntityNames == {"a", "b"}

SampleGeometryMeshes ==
    {[name |-> Some(nm), positions |-> <<>>, normals |-> <<>>, uv |-> <<>>,
      indices_per_material |-> <<>>] : nm \in EntityNames}

SampleMaterials ==
    {[name |-> Some(nm), diffuse_texture |-> None, data |-> "Lambert"] : nm \in EntityNames}

SampleMeshes ==
    {[name |-> Some(nm), geometry_mesh_index |-> 0, materials |-> <<>>] : nm \in EntityNames}

SampleTextures ==
    {[name |-> Some(nm), image |-> "image", transparent |-> FALSE,
      wrap_mode_u |-> "Repeat", wrap_mode_v |-> "Repeat"] : nm \in EntityNames}

\* Values of the variables a specification does not use.
IdleScene == scene = Scene_new /\ issued = <<>>

IdleTri == tri_in = None /\ tri_out = None

IdleLoad == self = None /\ doc = <<>> /\ ret = None

InitScene == scene = Scene_new /\ issued = <<>> /\ IdleTri /\ IdleLoad

Issue(kind, r, elem) ==
    /\ scene' = r.scene
    /\ issued' = Append(issued, [kind |-> kind, index |-> r.index, elem |-> elem])
    /\ UNCHANGED <<tri_in, tri_out, self, doc, ret>>

CallAddGeometryMesh ==
    /\ Len(issued) < MaxAdds
    /\ \E m \in SampleGeometryMeshes : Issue("geometry_mesh", add_geometry_mesh(scene, m), m)

CallAddMaterial ==
    /\ Len(issued) < MaxAdds
    /\ \E m \in SampleMaterials : Issue("material", add_material(scene, m), m)

CallAddMesh ==
    /\ Len(issued) < MaxAdds
    /\ \E m \in SampleMeshes : Issue("mesh", add_mesh(scene, m), m)

CallAddTexture ==
    /\ Len(issued) < MaxAdds
    /\ \E t \in SampleTextures : Issue("texture", add_texture(scene, t), t)

NextScene == CallAddGeometryMesh \/ CallAddMaterial \/ CallAddMesh \/ CallAddTexture

SpecScene == InitScene /\ [][NextScene]_vars

\* The accessor and the collection that belong to an index of the given kind.
Accessor(kind, s, i) ==
    CASE kind = "geometry_mesh" -> geometry_mesh(s, i)
      [] kind = "material" -> material(s, i)
      [] kind = "mesh" -> mesh(s, i)
      [] kind = "texture" -> texture(s, i)

Collection(kind, s) ==
    CASE kind = "geometry_mesh" -> s.geometry_meshes
      [] kind = "material" -> s.materials
      [] kind = "mesh" -> s.meshes
      [] kind = "texture" -> s.textures

\* C2: every index an add_* call has issued is smaller than the length of its
\* own collection and its accessor returns exactly the element that call added.
C2_IssuedIndexResolves ==
    \A k \in 1..Len(issued) :
        /\ issued[k].index < Len(Collection(issued[k].kind, scene))
        /\ Accessor(issued[k].kind, scene, issued[k].index) = Some(issued[k].elem)

(***************************************************************************)
(* SpecTri: one call of triangulator on a bounded family of polygons       *)
(***************************************************************************)
MaxPolyLen == 5

\* Control point indices a polygon corner may hold; Len(SamplePoints) is out
\* of range.
CornerChoices == 0..Len(SamplePoints)

\* The raw polygon vertex array of one polygon: the last corner is complemented.
EncodePolygon(cps) ==
    [i \in 1..Len(cps) |-> IF i = Len(cps) THEN -cps[i] - 1 ELSE cps[i]]

LeadingTriangle == <<0, 1, -3>>

\* The polygon is either the first of the mesh, triangulated into an empty
\* results vector, or follows a triangle whose result is still in the vector.
TriInput(cps, later) ==
    LET off == IF later THEN Len(LeadingTriangle) ELSE 0
    IN  [pvs |-> [control_points |-> SamplePoints,
                  polygon_vertices |->
                      IF later THEN LeadingTriangle \o EncodePolygon(cps)
                      ELSE EncodePolygon(cps)],
         poly_pvis |-> [i \in 1..Len(cps) |-> off + i - 1],
         results |-> IF later THEN << <<0, 1, 2>> >> ELSE <<>>]

InitTri ==
    /\ \E n \in 0..MaxPolyLen : \E cps \in [1..n -> CornerChoices] : \E later \in BOOLEAN :
           tri_in = Some(TriInput(cps, later))
    /\ tri_out = None
    /\ IdleScene /\ IdleLoad

Triangulate ==
    /\ tri_out = None
    /\ tri_out' = Some(triangulator(Unwrap(tri_in).pvs, Unwrap(tri_in).poly_pvis,
                                    Unwrap(tri_in).results))
    /\ UNCHANGED <<scene, issued, tri_in, self, doc, ret>>

NextTri == Triangulate

SpecTri == InitTri /\ [][NextTri]_vars

\* The triangles the call appended to the results vector.
TriAppended ==
    SubSeq(Unwrap(tri_out).results, Len(Unwrap(tri_in).results) + 1,
           Len(Unwrap(tri_out).results))

\* C9: a polygon of 0, 1 or 2 vertices is refused as InvalidPolygon (not enough
\* vertices), and on every error return of triangulator the results vector is
\* exactly what it was on entry.
C9_ErrorLeavesResults ==
    IsSome(tri_out) =>
        /\ Len(Unwrap(tri_in).poly_pvis) <= 2 =>
               ~Unwrap(tri_out).ok /\ Unwrap(tri_out).err = "NotEnoughVertices"
        /\ ~Unwrap(tri_out).ok => Unwrap(tri_out).results = Unwrap(tri_in).results

\* A 5-gon with two reflex corners was refused while the results vector held an
\* earlier triangle.
C9_Witness ==
    /\ IsSome(tri_out)
    /\ ~Unwrap(tri_out).ok
    /\ Unwrap(tri_out).err = "UnsupportedPolygon"
    /\ Unwrap(tri_in).results # <<>>

\* A 2-vertex polygon was refused while the results vector held an earlier
\* triangle.
C9_WitnessTooFew ==
    /\ IsSome(tri_out)
    /\ Len(Unwrap(tri_in).poly_pvis) = 2
    /\ ~Unwrap(tri_out).ok
    /\ Unwrap(tri_in).results # <<>>

\* An unresolvable control point was reported from the quad arm.
C9_WitnessOutOfRange ==
    /\ IsSome(tri_out)
    /\ Len(Unwrap(tri_in).poly_pvis) = 4
    /\ ~Unwrap(tri_out).ok
    /\ Unwrap(tri_out).err = "IndexOutOfRange"

\* How often the undirected edge {u, v} occurs among the edges of the triangles.
EdgeCount(tris, u, v) ==
    Cardinality({te \in (1..Len(tris)) \X (1..3) :
                    {tris[te[1]][te[2]], tris[te[1]][(te[2] % 3) + 1]} = {u, v}})

\* C10: a successful call on n >= 3 vertices appends n - 2 triangles over the
\* polygon's own vertices; every polygon edge (i, i+1 mod n) is an edge of
\* exactly one triangle and every other pair of vertices that is an edge of a
\* triangle at all is an edge of exactly two.
C10_Watertight ==
    (IsSome(tri_out) /\ Unwrap(tri_out).ok) =>
        LET pv == Unwrap(tri_in).poly_pvis
            n == Len(pv)
            tris == TriAppended
        IN  /\ n >= 3
            /\ Len(tris) = n - 2
            /\ \A t \in 1..Len(tris) : \A e \in 1..3 :
                   \E i \in 1..n : tris[t][e] = pv[i]
            /\ \A i \in 1..n : \A j \in (i + 1)..n :
                   LET c == EdgeCount(tris, pv[i], pv[j])
                   IN  IF j = i + 1 \/ (i = 1 /\ j = n) THEN c = 1 ELSE c \in {0, 2}

\* A 5-gon of five different control points was fanned from an anchor other
\* than its first vertex.
C10_Witness ==
    /\ IsSome(tri_out)
    /\ Unwrap(tri_out).ok
    /\ Len(Unwrap(tri_in).poly_pvis) = 5
    /\ Cardinality({control_point(Unwrap(tri_in).pvs, Unwrap(tri_in).poly_pvis[i]) :
                        i \in 1..5}) = 5
    /\ TriAppended[1][1] = Unwrap(tri_in).poly_pvis[4]

\* A quad was split along its 1-3 diagonal.
C10_WitnessQuad13 ==
    /\ IsSome(tri_out)
    /\ Unwrap(tri_out).ok
    /\ Len(Unwrap(tri_in).poly_pvis) = 4
    /\ TriAppended[1][3] = Unwrap(tri_in).poly_pvis[4]

(***************************************************************************)
(* SpecLoad, SpecGeom: Loader::load on a document                          *)
(*                                                                         *)
(* doc holds the objects the loop of Loader::load has taken from           *)
(* self.doc.objects() so far; each step takes the next object, whatever it *)
(* is.  SpecLoad explores the material and texture objects with the quad   *)
(* geometry, SpecGeom the geometry objects with the plain Lambert material *)
(* and one material whose image cannot be decoded.                         *)
(***************************************************************************)
MaxObjects == 2

MaxMaterials == 2

LoadGeometryIds == {"gQuad", "gNoUv"}

LoadMaterialIds == MaterialIds

GeomMaterialIds == {"mLambert", "mCorrupt"}

InitLoad ==
    /\ self = Some(Loader_new)
    /\ doc = <<>>
    /\ ret = None
    /\ IdleScene /\ IdleTri

\* A mesh model object of the document.
MeshModel(id, geometry, materials) ==
    [kind |-> "MeshModel", id |-> id, geometry |-> geometry, materials |-> materials]

\* A loop that logs a failed mesh model and goes on with the next object.
LoadMeshModelFrom_skips_failed(geometry_ids, material_ids) ==
    /\ ret = None
    /\ Len(doc) < MaxObjects
    /\ \E g \in {None} \cup {Some(x) : x \in geometry_ids} :
       \E n \in 0..MaxMaterials : \E ms \in [1..n -> material_ids] :
       \E r \in {load_mesh(Unwrap(self), MeshModel(Len(doc) + 1, g, ms))} :
           /\ doc' = Append(doc, MeshModel(Len(doc) + 1, g, ms))
           /\ self' = IF r.ok THEN Some(r.self) ELSE self
           /\ ret' = ret
    /\ UNCHANGED <<scene, issued, tri_in, tri_out>>

\* The body of the loop for a mesh model object: self.load_mesh(mesh)?
LoadMeshModelFrom(geometry_ids, material_ids) ==
    /\ ret = None
    /\ Len(doc) < MaxObjects
    /\ \E g \in {None} \cup {Some(x) : x \in geometry_ids} :
       \E n \in 0..MaxMaterials : \E ms \in [1..n -> material_ids] :
       \E r \in {load_mesh(Unwrap(self), MeshModel(Len(doc) + 1, g, ms))} :
           /\ doc' = Append(doc, MeshModel(Len(doc) + 1, g, ms))
           /\ IF r.ok
              THEN self' = Some(r.self) /\ ret' = ret
              ELSE self' = None /\ ret' = Some([ok |-> FALSE, err |-> r.err])
    /\ UNCHANGED <<scene, issued, tri_in, tri_out>>

LoadMeshModel == LoadMeshModelFrom(LoadGeometryIds, LoadMaterialIds)

LoadGeometryModel == LoadMeshModelFrom(GeometryIds, GeomMaterialIds)

\* The body of the loop for an object that is not a mesh model.
SkipObject ==
    /\ ret = None
    /\ Len(doc) < MaxObjects
    /\ doc' = Append(doc, [kind |-> "Other", id |-> Len(doc) + 1])
    /\ UNCHANGED <<scene, issued, tri_in, tri_out, self, ret>>

\* The iterator is exhausted: Ok(self.scene)
ReturnScene ==
    /\ ret = None
    /\ ret' = Some([ok |-> TRUE, scene |-> Unwrap(self).scene])
    /\ self' = None
    /\ UNCHANGED <<scene, issued, tri_in, tri_out, doc>>

NextLoad == LoadMeshModel \/ SkipObject \/ ReturnScene

SpecLoad == InitLoad /\ [][NextLoad]_vars

NextGeom == LoadGeometryModel \/ SkipObject \/ ReturnScene

SpecGeom == InitLoad /\ [][NextGeom]_vars

(***************************************************************************)
(* Properties of Loader::load                                              *)
(***************************************************************************)
\* The mesh models among the objects taken from the document so far.  While
\* the loop runs, and when it has returned Ok, each of them has been loaded.
MeshModels == SelectSeq(doc, LAMBDA o : o.kind = "MeshModel")

\* Loader::load has returned Ok(scene).
Returned == IsSome(ret) /\ Unwrap(ret).ok

\* Loader::load has returned Err(e).
Failed == IsSome(ret) /\ ~Unwrap(ret).ok

\* The Scene of the running Loader, or the Scene a finished load returned.
Scenes ==
    IF IsSome(self) THEN {Unwrap(self).scene}
    ELSE IF Returned THEN {Unwrap(ret).scene}
    ELSE {}

\* The 0-based positions of the entities of a collection built from object id.
EntitiesOf(collection, id) ==
    {i \in 0..(Len(collection) - 1) : collection[i + 1].name = ObjName(id)}

\* The texture object a material takes its texture from, if any.
ChosenTexture(material_id) ==
    IF diffuse_texture_slot(MaterialObjs[material_id]) = None THEN None
    ELSE Some(Unwrap(diffuse_texture_slot(MaterialObjs[material_id]))[2])

\* C1: within one load, an object reached a second time gets the Scene index
\* it got the first time, and the Scene holds at most one GeometryMesh,
\* Material or Texture per geometry, material or texture object.
C1_Dedup ==
    \A sc \in Scenes :
        /\ \A id \in GeometryIds : Cardinality(EntitiesOf(sc.geometry_meshes, id)) <= 1
        /\ \A id \in MaterialIds : Cardinality(EntitiesOf(sc.materials, id)) <= 1
        /\ \A id \in DOMAIN TextureObjs : Cardinality(EntitiesOf(sc.textures, id)) <= 1
        /\ \A k1, k2 \in 1..Len(MeshModels) :
              /\ MeshModels[k1].geometry = MeshModels[k2].geometry
                     => sc.meshes[k1].geometry_mesh_index = sc.meshes[k2].geometry_mesh_index
              /\ \A j1 \in 1..Len(MeshModels[k1].materials),
                    j2 \in 1..Len(MeshModels[k2].materials) :
                     MeshModels[k1].materials[j1] = MeshModels[k2].materials[j2]
                         => sc.meshes[k1].materials[j1] = sc.meshes[k2].materials[j2]
        /\ \A i1, i2 \in 1..Len(sc.materials) :
              ChosenTexture(Unwrap(sc.materials[i1].name))
                      = ChosenTexture(Unwrap(sc.materials[i2].name))
                  => sc.materials[i1].diffuse_texture = sc.materials[i2].diffuse_texture

\* What load_geometry_mesh, load_material and load_texture build from an
\* object on its own, in an empty Scene.
BuiltGeometryMesh(geometry_id, num_materials) ==
    load_geometry_mesh(Loader_new, geometry_id, num_materials).self.scene.geometry_meshes[1]

BuiltMaterial(material_id) ==
    load_material(Loader_new, material_id).self.scene.materials[1]

BuiltTexture(slot) ==
    load_texture(Loader_new, slot[2], slot[1]).self.scene.textures[1]

\* C3: in a Scene returned by a successful load, the geometry_mesh_index of
\* every Mesh resolves to the GeometryMesh built from the geometry object of
\* its mesh model, every entry of its materials to the Material built from the
\* corresponding material object, and every diffuse_texture that is Some to
\* the Texture built from the texture object the material chose.
C3_IndicesResolve ==
    Returned =>
        \A sc \in Scenes :
            /\ Len(sc.meshes) = Len(MeshModels)
            /\ \A k \in 1..Len(MeshModels) :
                  /\ sc.meshes[k].name = ObjName(MeshModels[k].id)
                  /\ geometry_mesh(sc, sc.meshes[k].geometry_mesh_index)
                         = Some(BuiltGeometryMesh(Unwrap(MeshModels[k].geometry),
                                                  Len(MeshModels[k].materials)))
                  /\ Len(sc.meshes[k].materials) = Len(MeshModels[k].materials)
                  /\ \A j \in 1..Len(MeshModels[k].materials) :
                        /\ IsSome(material(sc, sc.meshes[k].materials[j]))
                        /\ \A m \in {Unwrap(material(sc, sc.meshes[k].materials[j]))} :
                              /\ m.name = ObjName(MeshModels[k].materials[j])
                              /\ m.data = BuiltMaterial(MeshModels[k].materials[j]).data
                              /\ IsSome(m.diffuse_texture)
                                     = IsSome(ChosenTexture(MeshModels[k].materials[j]))
                              /\ IsSome(m.diffuse_texture) =>
                                     texture(sc, Unwrap(m.diffuse_texture))
                                         = Some(BuiltTexture(Unwrap(diffuse_texture_slot(
                                               MaterialObjs[MeshModels[k].materials[j]]))))

\* Two mesh models share the quad geometry and a textured material; the second
\* mesh got the second GeometryMesh and the second and third Material.
C3_Witness ==
    /\ Returned
    /\ Len(MeshModels) = 2
    /\ MeshModels[1].materials = <<"mPhongTex">>
    /\ MeshModels[2].materials = <<"mTransp", "mPhongTex">>
    /\ Unwrap(ret).scene.meshes[2].geometry_mesh_index = 1
    /\ Unwrap(ret).scene.meshes[2].materials = <<1, 2>>
    /\ Unwrap(ret).scene.materials[3].diffuse_texture = Some(2)

\* C4: in a Scene returned by a successful load, every Mesh has as many
\* materials as the GeometryMesh it refers to has sublists in
\* indices_per_material.
C4_MaterialSlots ==
    Returned =>
        \A sc \in Scenes : \A k \in 1..Len(sc.meshes) :
            /\ IsSome(geometry_mesh(sc, sc.meshes[k].geometry_mesh_index))
            /\ Len(sc.meshes[k].materials)
                   = Len(Unwrap(geometry_mesh(sc, sc.meshes[k].geometry_mesh_index))
                             .indices_per_material)

\* One geometry object is referenced by a mesh model with one material and by
\* a mesh model with two.
C4_Witness ==
    /\ Returned
    /\ Len(MeshModels) = 2
    /\ MeshModels[1].geometry = MeshModels[2].geometry
    /\ Len(Unwrap(ret).scene.meshes[1].materials) = 1
    /\ Len(Unwrap(ret).scene.meshes[2].materials) = 2

\* The number of triangles the triangulator emitted for a geometry object: one
\* polygon index is recorded per triangle.
EmittedTriangles(geometry_id) ==
    Len(triangulate_each(polygon_vertices(GeometryObjs[geometry_id])).val.tri_poly_indices)

RECURSIVE SumLen(_)
SumLen(seqs) == IF seqs = <<>> THEN 0 ELSE Len(Head(seqs)) + SumLen(Tail(seqs))

\* C5: every GeometryMesh appended to the Scene has 3 * T positions, normals
\* and UVs, T the number of triangles emitted for its geometry object, and
\* the sublists of indices_per_material hold 3 * T entries in total.
C5_VertexCounts ==
    \A sc \in Scenes : \A i \in 1..Len(sc.geometry_meshes) :
        \A g \in {sc.geometry_meshes[i]} :
            /\ Len(g.positions) = 3 * EmittedTriangles(Unwrap(g.name))
            /\ Len(g.normals) = Len(g.positions)
            /\ Len(g.uv) = Len(g.positions)
            /\ SumLen(g.indices_per_material) = 3 * EmittedTriangles(Unwrap(g.name))

\* A geometry of a triangle and a pentagon was appended: 4 triangles, 3 corners
\* in the first sublist and 9 in the second.
C5_Witness ==
    \E sc \in Scenes : \E i \in 1..Len(sc.geometry_meshes) :
        /\ sc.geometry_meshes[i].name = ObjName("gTriPent")
        /\ Len(sc.geometry_meshes[i].positions) = 12
        /\ Len(sc.geometry_meshes[i].indices_per_material[1]) = 3
        /\ Len(sc.geometry_meshes[i].indices_per_material[2]) = 9

\* The sizes n_1 .. n_k of the polygons of a polygon vertex list, from
\* position i on, n vertices of the current polygon having been seen.
RECURSIVE PolygonSizesFrom(_, _, _)
PolygonSizesFrom(pv, i, n) ==
    IF i > Len(pv) THEN <<>>
    ELSE IF pv[i] < 0 THEN <<n + 1>> \o PolygonSizesFrom(pv, i + 1, 0)
    ELSE PolygonSizesFrom(pv, i + 1, n + 1)

\* sum(n_i - 2)
RECURSIVE SumTriangles(_)
SumTriangles(sizes) ==
    IF sizes = <<>> THEN 0 ELSE (Head(sizes) - 2) + SumTriangles(Tail(sizes))

ExpectedTriangles(geometry_id) ==
    SumTriangles(PolygonSizesFrom(GeometryObjs[geometry_id].polygon_vertices, 1, 0))

\* C6: a document with one mesh model and one material loads to a Scene with
\* one GeometryMesh of sum(n_i - 2) triangles, every corner in slot 0, one
\* Lambert Material and one Mesh with materials [0] and geometry index 0; for
\* the quad of 4 control points with the untextured Lambert material that is
\* 2 triangles, 6 positions, 6 indices in slot 0, no diffuse texture and no
\* Texture.
C6_EndToEnd ==
    (Returned /\ Len(MeshModels) = 1 /\ Len(MeshModels[1].materials) = 1) =>
        \A sc \in Scenes : \A gid \in {Unwrap(MeshModels[1].geometry)} :
            /\ Len(sc.geometry_meshes) = 1
            /\ Len(sc.materials) = 1
            /\ Len(sc.meshes) = 1
            /\ sc.meshes[1].materials = <<0>>
            /\ sc.meshes[1].geometry_mesh_index = 0
            /\ sc.materials[1].data.tag = "Lambert"
            /\ Len(sc.geometry_meshes[1].positions) = 3 * ExpectedTriangles(gid)
            /\ sc.geometry_meshes[1].indices_per_material
                   = << [c \in 1..(3 * ExpectedTriangles(gid)) |-> c - 1] >>
            /\ (gid = "gQuad" /\ MeshModels[1].materials = <<"mLambert">>) =>
                  /\ Len(GeometryObjs[gid].control_points) = 4
                  /\ Len(sc.geometry_meshes[1].positions) = 6
                  /\ \A c \in 1..6 :
                        \E cp \in 1..4 : sc.geometry_meshes[1].positions[c]
                                             = GeometryObjs[gid].control_points[cp]
                  /\ sc.geometry_meshes[1].indices_per_material = << <<0, 1, 2, 3, 4, 5>> >>
                  /\ sc.materials[1].diffuse_texture = None
                  /\ sc.textures = <<>>

\* The document of one quad mesh model with the Lambert material was loaded.
C6_Witness ==
    /\ Returned
    /\ Len(MeshModels) = 1
    /\ MeshModels[1].geometry = Some("gQuad")
    /\ MeshModels[1].materials = <<"mLambert">>
    /\ Len(Unwrap(ret).scene.geometry_meshes[1].positions) = 6

\* A triangle, a pentagon and a quad under one material: 1 + 3 + 2 triangles.
C6_WitnessPolygons ==
    /\ Returned
    /\ Len(MeshModels) = 1
    /\ MeshModels[1].geometry = Some("gPolygons")
    /\ Len(Unwrap(ret).scene.geometry_meshes[1].indices_per_material[1]) = 18

\* C7: when loading a mesh model fails, Loader::load returns that error and no
\* Scene, and takes no further object from the document.
C7_FailFast ==
    /\ [](Failed => /\ self = None
                    /\ DOMAIN Unwrap(ret) = {"ok", "err"}
                    /\ doc[Len(doc)].kind = "MeshModel")
    /\ [](Returned => Len(Unwrap(ret).scene.meshes) = Len(MeshModels))
    /\ [][(/\ IsSome(self)
           /\ Len(doc') = Len(doc) + 1
           /\ doc'[Len(doc')].kind = "MeshModel"
           /\ ~load_mesh(Unwrap(self), doc'[Len(doc')]).ok)
          => (/\ Failed'
              /\ Unwrap(ret').err = load_mesh(Unwrap(self), doc'[Len(doc')]).err)]_vars
    /\ [][Failed => UNCHANGED <<doc, self, ret>>]_vars

\* The second mesh model failed in the image decoder, below the texture and
\* the material load; the first had been loaded.
C7_Witness ==
    /\ Failed
    /\ Len(MeshModels) = 2
    /\ MeshModels[1].geometry = Some("gQuad")
    /\ MeshModels[1].materials = <<"mLambert">>
    /\ [k \in 1..Len(Unwrap(ret).err) |-> Unwrap(ret).err[k].msg]
           = <<"Failed to load materials for mesh", "Failed to load diffuse texture",
               "Failed to load texture image", "Failed to load image">>

\* The second mesh model failed in the triangulator.
C7_WitnessTriangulation ==
    /\ Failed
    /\ Len(MeshModels) = 2
    /\ MeshModels[2].geometry = Some("gTwoVertices")
    /\ Unwrap(ret).err[Len(Unwrap(ret).err)].msg = "NotEnoughVertices"

\* The running Loader, if the load has not returned.
Loaders == IF IsSome(self) THEN {Unwrap(self)} ELSE {}

\* The material objects whose shading model is Lambert or Phong.
LambertOrPhong ==
    {m \in MaterialIds : MaterialObjs[m].shading_model \in {Some("Lambert"), Some("Phong")}}

\* The material objects whose texture, if they have one, loads.
TextureLoads ==
    {m \in MaterialIds :
        load_diffuse_texture(Loader_new, diffuse_texture_slot(MaterialObjs[m])).ok}

\* load_material has appended a Material with ShadingData::Lambert, computed
\* from the properties of the material object.
AppendedLambert(ld, material_id, r) ==
    /\ r.ok
    /\ Len(r.self.scene.materials) = Len(ld.scene.materials) + 1
    /\ material(r.self.scene, r.val) = Some(r.self.scene.materials[Len(r.self.scene.materials)])
    /\ \A m \in {r.self.scene.materials[Len(r.self.scene.materials)]} :
          /\ m.name = ObjName(material_id)
          /\ m.data.tag = "Lambert"
          /\ \A which \in {"ambient", "diffuse", "emissive"} :
                m.data[which] = MaterialObjs[material_id].props[which][1]
                                    * MaterialObjs[material_id].props[which][2]

\* load_material has failed on the shading model and appended no Material.
UnknownShadingModel(ld, r) ==
    /\ ~r.ok
    /\ r.err[Len(r.err)].msg = "Unknown shading model"
    /\ r.self.scene.materials = ld.scene.materials

\* The load as a whole: no Scene, running or returned, has a mesh whose model
\* references a material of the given set.
NoSceneWith(material_ids) ==
    \A sc \in Scenes : \A k \in 1..Len(MeshModels) :
        \A j \in 1..Len(MeshModels[k].materials) : MeshModels[k].materials[j] \notin material_ids

MaxPlanarLen == 6

PlanarPoints ==
    << <<0, 0>>, <<3, 0>>, <<4, 1>>, <<3, 2>>, <<0, 2>>, <<-1, 1>>, <<1, 1>>, <<2, 1>> >>

PlaneNames == {"xy", "yz", "zx", "tilted", "steep"}

\* The control point of the plane point q: three axis-aligned planes, a plane
\* that contains no axis, and the plane x = y, which contains the Z axis.
Embed(plane, q) ==
    CASE plane = "xy" -> <<q[1], q[2], 0>>
      [] plane = "yz" -> <<5, q[1], q[2]>>
      [] plane = "zx" -> <<q[2], -2, q[1]>>
      [] plane = "tilted" -> <<q[1] + 1, q[2] + 1, q[1] + q[2] + 1>>
      [] OTHER -> <<q[1], q[1], q[2]>>

\* Twice the signed area of the plane triangle a, b, c: positive when it
\* turns left.
Orient(a, b, c) == (b[1] - a[1]) * (c[2] - a[2]) - (b[2] - a[2]) * (c[1] - a[1])

\* c lies in the bounding rectangle of a and b.
InBox(a, b, c) ==
    /\ Min2(a[1], b[1]) <= c[1] /\ c[1] <= Max2(a[1], b[1])
    /\ Min2(a[2], b[2]) <= c[2] /\ c[2] <= Max2(a[2], b[2])

\* The closed segments a-b and c-d have a point in common.
SegmentsMeet(a, b, c, d) ==
    \/ /\ Orient(a, b, c) * Orient(a, b, d) < 0
       /\ Orient(c, d, a) * Orient(c, d, b) < 0
    \/ Orient(a, b, c) = 0 /\ InBox(a, b, c)
    \/ Orient(a, b, d) = 0 /\ InBox(a, b, d)
    \/ Orient(c, d, a) = 0 /\ InBox(c, d, a)
    \/ Orient(c, d, b) = 0 /\ InBox(c, d, b)

\* The open path p (indices into PlanarPoints) can go on to point c: c is new,
\* the corner at the end of p turns, and the new edge meets no earlier edge
\* but the one it starts from.
Extends(p, c) ==
    /\ \A i \in 1..Len(p) : p[i] # c
    /\ Len(p) >= 2 =>
           Orient(PlanarPoints[p[Len(p) - 1]], PlanarPoints[p[Len(p)]], PlanarPoints[c]) # 0
    /\ \A i \in 1..(Len(p) - 2) :
           ~SegmentsMeet(PlanarPoints[p[i]], PlanarPoints[p[i + 1]],
                         PlanarPoints[p[Len(p)]], PlanarPoints[c])

RECURSIVE OpenPaths(_)
OpenPaths(k) ==
    IF k = 1 THEN {<<c>> : c \in 1..Len(PlanarPoints)}
    ELSE {Append(pc[1], pc[2]) :
             pc \in {x \in OpenPaths(k - 1) \X (1..Len(PlanarPoints)) : Extends(x[1], x[2])}}

\* The open path p closes to a simple polygon.
Closes(p) ==
    /\ Orient(PlanarPoints[p[Len(p) - 1]], PlanarPoints[p[Len(p)]], PlanarPoints[p[1]]) # 0
    /\ Orient(PlanarPoints[p[Len(p)]], PlanarPoints[p[1]], PlanarPoints[p[2]]) # 0
    /\ \A i \in 2..(Len(p) - 2) :
           ~SegmentsMeet(PlanarPoints[p[i]], PlanarPoints[p[i + 1]],
                         PlanarPoints[p[Len(p)]], PlanarPoints[p[1]])

SimplePolygons(n) == {p \in OpenPaths(n) : Closes(p)}

PlanarInput(p, plane) ==
    [pvs |-> [control_points |-> [i \in 1..Len(p) |-> Embed(plane, PlanarPoints[p[i]])],
              polygon_vertices |-> EncodePolygon([i \in 1..Len(p) |-> i - 1])],
     poly_pvis |-> [i \in 1..Len(p) |-> i - 1],
     results |-> <<>>,
     flat |-> [i \in 1..Len(p) |-> PlanarPoints[p[i]]],
     plane |-> plane]

InitPlanar ==
    /\ \E n \in 4..MaxPlanarLen : \E p \in SimplePolygons(n) : \E plane \in PlaneNames :
           tri_in = Some(PlanarInput(p, plane))
    /\ tri_out = None
    /\ IdleScene /\ IdleLoad

SpecPlanar == InitPlanar /\ [][NextTri]_vars

\* The turn of plane polygon flat at corner i (1-based): positive to the left.
Turn(flat, i) ==
    Orient(flat[((i + Len(flat) - 2) % Len(flat)) + 1], flat[i], flat[(i % Len(flat)) + 1])

\* Twice the signed area of the plane polygon from corner i on: positive when
\* the polygon winds counterclockwise.
RECURSIVE Area2From(_, _)
Area2From(flat, i) ==
    IF i > Len(flat) THEN 0
    ELSE flat[i][1] * flat[(i % Len(flat)) + 1][2]
             - flat[(i % Len(flat)) + 1][1] * flat[i][2] + Area2From(flat, i + 1)

\* The corners with an interior angle above 180 degrees, and those below.
ReflexCorners(flat) == {i \in 1..Len(flat) : Turn(flat, i) * Area2From(flat, 1) < 0}

ConvexCorners(flat) == {i \in 1..Len(flat) : Turn(flat, i) * Area2From(flat, 1) > 0}

\* C11: on a convex planar polygon of n >= 5 vertices, in either winding and
\* in any plane, triangulator succeeds and appends n - 2 triangles that all
\* have the same first vertex.
C11_ConvexFan ==
    \A in \in {Unwrap(tri_in)} :
        (IsSome(tri_out) /\ Len(in.flat) >= 5 /\ ReflexCorners(in.flat) = {}) =>
            /\ Unwrap(tri_out).ok
            /\ Len(TriAppended) = Len(in.flat) - 2
            /\ \A t \in 1..Len(TriAppended) : TriAppended[t][1] = TriAppended[1][1]

\* A convex hexagon that winds counterclockwise in the plane without an axis
\* was fanned.
C11_Witness ==
    /\ IsSome(tri_out)
    /\ Unwrap(tri_out).ok
    /\ Len(Unwrap(tri_in).flat) = 6
    /\ ReflexCorners(Unwrap(tri_in).flat) = {}
    /\ Area2From(Unwrap(tri_in).flat, 1) > 0
    /\ Unwrap(tri_in).plane = "tilted"
    /\ Len(TriAppended) = 4

\* The same for a clockwise convex pentagon in the plane x = y.
C11_WitnessClockwise ==
    /\ IsSome(tri_out)
    /\ Unwrap(tri_out).ok
    /\ Len(Unwrap(tri_in).flat) = 5
    /\ ReflexCorners(Unwrap(tri_in).flat) = {}
    /\ Area2From(Unwrap(tri_in).flat, 1) < 0
    /\ Unwrap(tri_in).plane = "steep"

\* C12: a simple planar polygon of n >= 5 vertices, in any plane and either
\* winding, is triangulated when it has exactly one reflex vertex, and is
\* refused as UnsupportedPolygon, nothing being appended, when it has at least
\* two reflex and at least two convex vertices.
C12_ReflexCount ==
    \A in \in {Unwrap(tri_in)} :
        (IsSome(tri_out) /\ Len(in.flat) >= 5) =>
            /\ Cardinality(ReflexCorners(in.flat)) = 1 => Unwrap(tri_out).ok
            /\ (/\ Cardinality(ReflexCorners(in.flat)) >= 2
                /\ Cardinality(ConvexCorners(in.flat)) >= 2)
               => /\ ~Unwrap(tri_out).ok
                  /\ Unwrap(tri_out).err = "UnsupportedPolygon"
                  /\ TriAppended = <<>>

\* Twice the signed area, in the plane, of an emitted triangle of polygon
\* vertex indices.
TriOrient(flat, t) == Orient(flat[t[1] + 1], flat[t[2] + 1], flat[t[3] + 1])

\* C13: on a planar convex quad, in either winding and in any plane,
\* triangulator appends two triangles, neither of zero area and neither wound
\* against the quad.
C13_ConvexQuad ==
    \A in \in {Unwrap(tri_in)} :
        (IsSome(tri_out) /\ Len(in.flat) = 4 /\ ReflexCorners(in.flat) = {}) =>
            /\ Unwrap(tri_out).ok
            /\ Len(TriAppended) = 2
            /\ \A t \in 1..Len(TriAppended) :
                   TriOrient(in.flat, TriAppended[t]) * Area2From(in.flat, 1) > 0

\* A clockwise convex quad in the plane x = y was cut into two triangles.
C13_Witness ==
    /\ IsSome(tri_out)
    /\ Unwrap(tri_out).ok
    /\ Len(Unwrap(tri_in).flat) = 4
    /\ ReflexCorners(Unwrap(tri_in).flat) = {}
    /\ Area2From(Unwrap(tri_in).flat, 1) < 0
    /\ Unwrap(tri_in).plane = "steep"
    /\ Len(TriAppended) = 2

\* The same for a counterclockwise convex quad in the plane without an axis.
C13_WitnessCounterclockwise ==
    /\ IsSome(tri_out)
    /\ Unwrap(tri_out).ok
    /\ Len(Unwrap(tri_in).flat) = 4
    /\ ReflexCorners(Unwrap(tri_in).flat) = {}
    /\ Area2From(Unwrap(tri_in).flat, 1) > 0
    /\ Unwrap(tri_in).plane = "tilted"
    /\ Len(TriAppended) = 2

\* C20: on a planar simple quad with exactly one reflex corner, in either
\* winding and in any plane, triangulator cuts along the diagonal that ends at
\* the reflex corner: [0,1,2] and [2,3,0] when corner 0 or 2 is reflex,
\* [0,1,3] and [3,1,2] when corner 1 or 3 is; neither triangle has zero area or
\* is wound against the quad.
C20_ReflexQuad ==
    \A in \in {Unwrap(tri_in)} :
        (IsSome(tri_out) /\ Len(in.flat) = 4 /\ Cardinality(ReflexCorners(in.flat)) = 1) =>
            /\ Unwrap(tri_out).ok
            /\ ReflexCorners(in.flat) \subseteq {1, 3}
                   => TriAppended = << <<0, 1, 2>>, <<2, 3, 0>> >>
            /\ ReflexCorners(in.flat) \subseteq {2, 4}
                   => TriAppended = << <<0, 1, 3>>, <<3, 1, 2>> >>
            /\ \A t \in 1..Len(TriAppended) :
                   TriOrient(in.flat, TriAppended[t]) * Area2From(in.flat, 1) > 0

\* A quad whose corner 1 is reflex was cut between corners 1 and 3.
C20_Witness ==
    /\ IsSome(tri_out)
    /\ Len(Unwrap(tri_in).flat) = 4
    /\ ReflexCorners(Unwrap(tri_in).flat) = {2}
    /\ TriAppended = << <<0, 1, 3>>, <<3, 1, 2>> >>

\* A clockwise quad whose corner 2 is reflex was cut between corners 0 and 2.
C20_WitnessCorner2 ==
    /\ IsSome(tri_out)
    /\ Len(Unwrap(tri_in).flat) = 4
    /\ ReflexCorners(Unwrap(tri_in).flat) = {3}
    /\ Area2From(Unwrap(tri_in).flat, 1) < 0
    /\ TriAppended = << <<0, 1, 2>>, <<2, 3, 0>> >>

\* The message of the lookup that fails first in load_geometry_mesh on a
\* geometry object without a layer, or whose first layer lacks the normal, UV
\* or material layer element; None for a geometry object that has them all.
MissingLayerError(geometry_id) ==
    CASE GeometryObjs[geometry_id].layers = <<>> -> Some("Failed to get layer")
      [] GeometryObjs[geometry_id].layers # <<>>
             /\ GeometryObjs[geometry_id].layers[1].normals = None -> Some("Failed to get normals")
      [] GeometryObjs[geometry_id].layers # <<>>
             /\ GeometryObjs[geometry_id].layers[1].normals # None
             /\ GeometryObjs[geometry_id].layers[1].uv = None -> Some("Failed to get UV")
      [] GeometryObjs[geometry_id].layers # <<>>
             /\ GeometryObjs[geometry_id].layers[1].normals # None
             /\ GeometryObjs[geometry_id].layers[1].uv # None
             /\ GeometryObjs[geometry_id].layers[1].materials = None
             -> Some("Materials not found for mesh")
      [] OTHER -> None

\* m is a mesh model object whose materials load in the running Loader, so
\* that load_mesh calls load_geometry_mesh on its geometry object.
LoadsGeometryOf(m) ==
    /\ IsSome(self)
    /\ m.kind = "MeshModel"
    /\ m.geometry # None
    /\ load_materials(Unwrap(self), m.materials, 1, <<>>).ok

C14_WitnessNormals ==
    /\ Failed
    /\ MeshModels[Len(MeshModels)].geometry = Some("gNoNormals")
    /\ Unwrap(ret).err[Len(Unwrap(ret).err)].msg = "Failed to get normals"

C14_WitnessMaterials ==
    /\ Failed
    /\ MeshModels[Len(MeshModels)].geometry = Some("gNoMaterialLayer")
    /\ Unwrap(ret).err[Len(Unwrap(ret).err)].msg = "Materials not found for mesh"

C14_WitnessLayer ==
    /\ Failed
    /\ MeshModels[Len(MeshModels)].geometry = Some("gNoLayer")
    /\ Unwrap(ret).err[Len(Unwrap(ret).err)].msg = "Failed to get layer"

\* The triangle corners of a geometry object whose polygons triangulate.
TriangleVerticesOf(geometry_id) ==
    triangulate_each(polygon_vertices(GeometryObjs[geometry_id])).val

\* load_geometry_mesh on the geometry object gets as far as the bucketing
\* loop: the polygons triangulate, the layer elements are there, and positions,
\* normals and UV are found for every triangle corner.
ReachesBucketing(geometry_id) ==
    /\ triangulate_each(polygon_vertices(GeometryObjs[geometry_id])).ok
    /\ MissingLayerError(geometry_id) = None
    /\ \A k \in 1..Len(TriangleVerticesOf(geometry_id).tri_pv_indices) :
          /\ corner_position(polygon_vertices(GeometryObjs[geometry_id]),
                             TriangleVerticesOf(geometry_id), k - 1).ok
          /\ corner_layer_value(Unwrap(GeometryObjs[geometry_id].layers[1].normals),
                                polygon_vertices(GeometryObjs[geometry_id]),
                                TriangleVerticesOf(geometry_id), k - 1).ok
          /\ corner_layer_value(Unwrap(GeometryObjs[geometry_id].layers[1].uv),
                                polygon_vertices(GeometryObjs[geometry_id]),
                                TriangleVerticesOf(geometry_id), k - 1).ok

\* The mesh-local material index resolved for triangle corner tri_vi.
CornerSlot(geometry_id, tri_vi) ==
    material_index(Unwrap(GeometryObjs[geometry_id].layers[1].materials),
                   TriangleVerticesOf(geometry_id), tri_vi)

\* The triangle corners 0 .. 3 * triangles - 1 of the geometry object.
Corners(geometry_id) == 0..(Len(TriangleVerticesOf(geometry_id).tri_pv_indices) - 1)

\* How often v occurs in the sequence s.
Occurrences(s, v) == Cardinality({i \in 1..Len(s) : s[i] = v})

\* C15: when load_geometry_mesh reaches the bucketing loop and the material
\* index of some triangle corner is >= num_materials, it fails with the
\* material-index-out-of-range error and appends no GeometryMesh; a mesh model
\* without materials whose geometry has a polygon fails to load; and in every
\* GeometryMesh that is built, each corner is once in the sublist of its index,
\* which is < num_materials, and in no other sublist.
C15_MaterialIndexRange ==
    [][\A m \in {doc'[k] : k \in (Len(doc) + 1)..Len(doc')} :
           LoadsGeometryOf(m) =>
               \A g \in {Unwrap(m.geometry)} : \A r \in {load_mesh(Unwrap(self), m)} :
                   /\ (/\ ReachesBucketing(g)
                       /\ \E c \in Corners(g) :
                              /\ CornerSlot(g, c) # None
                              /\ Unwrap(CornerSlot(g, c)) >= Len(m.materials)
                       /\ \A c \in Corners(g) : CornerSlot(g, c) # None)
                      => /\ ~r.ok
                         /\ r.err[Len(r.err)].msg = "Mesh-local material index out of range"
                         /\ r.self.scene.geometry_meshes = Unwrap(self).scene.geometry_meshes
                         /\ Failed'
                   /\ (m.materials = <<>> /\ GeometryObjs[g].polygon_vertices # <<>>)
                      => (~r.ok /\ Failed')
                   /\ r.ok =>
                        \A gm \in {r.self.scene.geometry_meshes[Len(r.self.scene.geometry_meshes)]} :
                            /\ Len(gm.indices_per_material) = Len(m.materials)
                            /\ \A c \in Corners(g) : \A s \in 1..Len(gm.indices_per_material) :
                                   Occurrences(gm.indices_per_material[s], c)
                                       = IF CornerSlot(g, c) = Some(s - 1) THEN 1 ELSE 0]_vars

\* The triangle and pentagon geometry, whose pentagon is in slot 1, failed to
\* load for a mesh model with one material.
C15_Witness ==
    /\ Failed
    /\ MeshModels[Len(MeshModels)].geometry = Some("gTriPent")
    /\ MeshModels[Len(MeshModels)].materials = <<"mLambert">>
    /\ [k \in 1..Len(Unwrap(ret).err) |-> Unwrap(ret).err[k].msg]
           = <<"Failed to load geometry mesh", "Mesh-local material index out of range">>

\* The quad geometry failed to load for a mesh model without materials.
C15_WitnessNoMaterials ==
    /\ Failed
    /\ MeshModels[Len(MeshModels)].geometry = Some("gQuad")
    /\ MeshModels[Len(MeshModels)].materials = <<>>
    /\ Unwrap(ret).err[Len(Unwrap(ret).err)].msg = "Mesh-local material index out of range"

\* The triangle and pentagon geometry was loaded for a mesh model with two
\* materials: three corners in slot 0, nine in slot 1.
C15_WitnessBucketed ==
    /\ Returned
    /\ Len(MeshModels) = 1
    /\ MeshModels[1].geometry = Some("gTriPent")
    /\ Len(Unwrap(ret).scene.geometry_meshes[1].indices_per_material[1]) = 3
    /\ Len(Unwrap(ret).scene.geometry_meshes[1].indices_per_material[2]) = 9

\* The Texture a Material of the Scene refers to is built from texture object
\* texture_id with the given transparent flag.
RefersTo(sc, mat, texture_id, transparent) ==
    /\ IsSome(mat.diffuse_texture)
    /\ Get(sc.textures, Unwrap(mat.diffuse_texture)) # None
    /\ sc.textures[Unwrap(mat.diffuse_texture) + 1].name = ObjName(texture_id)
    /\ sc.textures[Unwrap(mat.diffuse_texture) + 1].transparent = transparent

\* C16: every Material of the Scene built from a material object with a
\* transparent texture refers to the Texture of that texture object, loaded
\* with transparent = true, whether or not the object has a diffuse texture
\* too; one built from an object with a diffuse texture only refers to that
\* texture, loaded with transparent = false; one built from an object with
\* neither has diffuse_texture None, and no Texture was loaded for it: the
\* Scene has one Texture per Material with a texture.
C16_TextureSlot ==
    \A sc \in Scenes :
        /\ \A i \in 1..Len(sc.materials) :
              \A obj \in {MaterialObjs[Unwrap(sc.materials[i].name)]} :
                  /\ IsSome(obj.transparent_texture)
                         => RefersTo(sc, sc.materials[i], Unwrap(obj.transparent_texture), TRUE)
                  /\ (obj.transparent_texture = None /\ IsSome(obj.diffuse_texture))
                         => RefersTo(sc, sc.materials[i], Unwrap(obj.diffuse_texture), FALSE)
                  /\ (obj.transparent_texture = None /\ obj.diffuse_texture = None)
                         => sc.materials[i].diffuse_texture = None
        /\ Len(sc.textures)
               = Cardinality({i \in 1..Len(sc.materials) : IsSome(sc.materials[i].diffuse_texture)})

\* A load returned a Scene with the material that has both slots, referring to
\* the transparent one, and the material without a texture.
C16_Witness ==
    /\ Returned
    /\ Len(MeshModels) = 1
    /\ MeshModels[1].materials = <<"mTransp", "mLambert">>
    /\ Len(Unwrap(ret).scene.textures) = 1
    /\ Unwrap(ret).scene.textures[1].name = ObjName("tA")
    /\ Unwrap(ret).scene.textures[1].transparent
    /\ Unwrap(ret).scene.materials[2].diffuse_texture = None

\* A load returned a Scene with the material that has a diffuse texture only.
C16_WitnessDiffuse ==
    /\ Returned
    /\ Len(MeshModels) = 1
    /\ MeshModels[1].materials = <<"mPhongTex">>
    /\ Unwrap(ret).scene.textures[1].name = ObjName("tA")
    /\ ~Unwrap(ret).scene.textures[1].transparent

\* The slot <<transparent, texture>> the object of a Material of the Scene
\* takes its texture from, if any.
SlotOf(mat) == diffuse_texture_slot(MaterialObjs[Unwrap(mat.name)])

\* C17: when two Materials of the Scene come from objects that refer to the
\* same texture object, one by its transparent slot and one by its diffuse
\* slot, the Scene holds a single Texture for that object, both Materials
\* refer to it, and its transparent flag is the one of the reference loaded
\* first.
C17_FirstReferenceWins ==
    \A sc \in Scenes :
        \A i1, i2 \in 1..Len(sc.materials) :
            (/\ i1 < i2
             /\ IsSome(SlotOf(sc.materials[i1]))
             /\ IsSome(SlotOf(sc.materials[i2]))
             /\ Unwrap(SlotOf(sc.materials[i1]))[2] = Unwrap(SlotOf(sc.materials[i2]))[2]
             /\ Unwrap(SlotOf(sc.materials[i1]))[1] # Unwrap(SlotOf(sc.materials[i2]))[1])
            => \A x \in {Unwrap(SlotOf(sc.materials[i1]))[2]} :
                   /\ Cardinality(EntitiesOf(sc.textures, x)) = 1
                   /\ sc.materials[i1].diffuse_texture = sc.materials[i2].diffuse_texture
                   /\ \A t \in EntitiesOf(sc.textures, x) :
                          sc.textures[t + 1].transparent
                              = Unwrap(SlotOf(sc.materials[
                                    CHOOSE j \in 1..Len(sc.materials) :
                                        /\ IsSome(SlotOf(sc.materials[j]))
                                        /\ Unwrap(SlotOf(sc.materials[j]))[2] = x
                                        /\ \A k \in 1..(j - 1) :
                                               ~(/\ IsSome(SlotOf(sc.materials[k]))
                                                 /\ Unwrap(SlotOf(sc.materials[k]))[2] = x)]))[1]

\* The messages of the errors and contexts that load_mesh, load_geometry_mesh,
\* load_material and load_texture make themselves.
MeshContexts ==
    {"Failed to get geometry", "Failed to load materials for mesh",
     "Failed to load geometry mesh"}

GeometryContexts ==
    {"Triangulation failed", "Failed to reconstruct position vertices", "Failed to get layer",
     "Failed to get normals", "Failed to reconstruct normals vertices", "Failed to get UV",
     "Failed to reconstruct UV vertices", "Materials not found for mesh",
     "Failed to get mesh-local material index", "Mesh-local material index out of range",
     "Vertices length mismatch"}

MaterialContexts ==
    {"Failed to load diffuse texture", "Failed to get shading model", "Unknown shading model"}

TextureContexts ==
    {"Failed to load wrap mode for U axis", "Failed to load wrap mode for V axis",
     "No image data for texture object", "Failed to load texture image"}

\* C18: in the error a failed load returns, each step that failed (mesh,
\* geometry mesh, material, texture) has put at least one context that names
\* the object it was processing.
C18_ErrorNamesObjects ==
    Failed =>
        \A step \in {MeshContexts, GeometryContexts, MaterialContexts, TextureContexts} :
            (\E k \in 1..Len(Unwrap(ret).err) : Unwrap(ret).err[k].msg \in step)
                => \E k \in 1..Len(Unwrap(ret).err) :
                       /\ Unwrap(ret).err[k].msg \in step
                       /\ Unwrap(ret).err[k].obj # None

(***************************************************************************)
(* util/bbox.rs and the bounding box of the drawable Scene                 *)
(*                                                                         *)
(* A BoundingBox3d is [min, max]; an OptionalBoundingBox3d is its bbox     *)
(* field, None or Some(BoundingBox3d).  Coordinates are integers.          *)
(***************************************************************************)
\* element_wise_apply(a, b, Float::min) and element_wise_apply(a, b, Float::max)
element_wise_apply_min(a, b) == <<Min2(a[1], b[1]), Min2(a[2], b[2]), Min2(a[3], b[3])>>

element_wise_apply_max(a, b) == <<Max2(a[1], b[1]), Max2(a[2], b[2]), Max2(a[3], b[3])>>

\* BoundingBox3d::from(p)
BoundingBox3d_from(p) == [min |-> p, max |-> p]

BoundingBox3d_insert(self_, p) ==
    [min |-> element_wise_apply_min(self_.min, p),
     max |-> element_wise_apply_max(self_.max, p)]

\* BoundingBox3d::insert_extend: the fold over the points from position i on.
RECURSIVE BoundingBox3d_insert_extend(_, _, _)
BoundingBox3d_insert_extend(self_, points, i) ==
    IF i > Len(points) THEN self_
    ELSE BoundingBox3d_insert_extend(BoundingBox3d_insert(self_, points[i]), points, i + 1)

BoundingBox3d_union(self_, o) ==
    [min |-> element_wise_apply_min(self_.min, o.min),
     max |-> element_wise_apply_max(self_.max, o.max)]

\* A union in which an empty box makes the result empty.
OptionalBoundingBox3d_union_empty_absorbs(self_, o) ==
    IF IsSome(self_) /\ IsSome(o) THEN Some(BoundingBox3d_union(Unwrap(self_), Unwrap(o)))
    ELSE None

OptionalBoundingBox3d_union(self_, o) ==
    CASE IsSome(self_) /\ IsSome(o) -> Some(BoundingBox3d_union(Unwrap(self_), Unwrap(o)))
      [] IsSome(self_) /\ o = None -> self_
      [] self_ = None /\ IsSome(o) -> o
      [] OTHER -> None

\* OptionalBoundingBox3d::union_extend: the fold over the boxes from position i on.
RECURSIVE OptionalBoundingBox3d_union_extend(_, _, _)
OptionalBoundingBox3d_union_extend(self_, boxes, i) ==
    IF i > Len(boxes) THEN self_
    ELSE OptionalBoundingBox3d_union_extend(
             OptionalBoundingBox3d_union(self_, boxes[i]), boxes, i + 1)

\* FromIterator<Point3<S>> for OptionalBoundingBox3d
from_iter_points(points) ==
    IF points = <<>> THEN None
    ELSE Some(BoundingBox3d_insert_extend(BoundingBox3d_from(points[1]), points, 2))

\* FromIterator<OptionalBoundingBox3d<S>> for OptionalBoundingBox3d
from_iter_boxes(boxes) ==
    IF boxes = <<>> THEN None
    ELSE OptionalBoundingBox3d_union_extend(boxes[1], boxes, 2)

\* GeometryMesh::bbox_mesh
bbox_mesh(gm) == from_iter_points(gm.positions)

\* The vertex buffer of a drawable GeometryMesh: positions, normals and uv
\* zipped, so as long as the shortest of the three.
drawable_vertices(src_geometry) ==
    [k \in 1..Min2(Len(src_geometry.positions),
                   Min2(Len(src_geometry.normals), Len(src_geometry.uv))) |->
        [position |-> src_geometry.positions[k],
         normal |-> src_geometry.normals[k],
         uv |-> src_geometry.uv[k]]]

\* The first loop of drawable::Loader::load: one drawable GeometryMesh per
\* GeometryMesh of the source Scene, one index buffer per index sublist.
drawable_geometry_meshes(src_scene) ==
    [i \in 1..Len(src_scene.geometry_meshes) |->
        [name |-> src_scene.geometry_meshes[i].name,
         vertices |-> drawable_vertices(src_scene.geometry_meshes[i]),
         indices_per_material |->
             [j \in 1..Len(src_scene.geometry_meshes[i].indices_per_material) |->
                 src_scene.geometry_meshes[i].indices_per_material[j]],
         bounding_box |-> bbox_mesh(src_scene.geometry_meshes[i])]]

\* fs::ty::Material of a source material: enabled is !diffuse_texture_exists.
shader_material(src_material) ==
    [ambient |-> src_material.data.ambient,
     diffuse |-> src_material.data.diffuse,
     emissive |-> src_material.data.emissive,
     enabled |-> IF IsSome(src_material.diffuse_texture) THEN 0 ELSE 1]

\* The drawable Material of a source material, its cache empty.
drawable_material(src_material) ==
    [name |-> src_material.name,
     diffuse_texture |-> src_material.diffuse_texture,
     data |-> shader_material(src_material),
     cache |-> [uniform_buffer |-> None]]

\* The materials with a diffuse texture, then the others.
textured_first(materials) ==
    SelectSeq(materials, LAMBDA m : IsSome(m.diffuse_texture))
    \o SelectSeq(materials, LAMBDA m : m.diffuse_texture = None)

\* A loop that uploads the materials without a texture last.
drawable_materials_textured_first(src_scene) ==
    [i \in 1..Len(src_scene.materials) |->
        drawable_material(textured_first(src_scene.materials)[i])]

\* The second loop: one drawable Material per material, in the order of the
\* source.
drawable_materials(src_scene) ==
    [i \in 1..Len(src_scene.materials) |-> drawable_material(src_scene.materials[i])]

\* The third loop: scene.meshes.push(src_mesh.clone())
drawable_meshes(src_scene) == [i \in 1..Len(src_scene.meshes) |-> src_scene.meshes[i]]

\* WrapMode::Repeat => SamplerAddressMode::Repeat,
\* WrapMode::ClampToEdge => SamplerAddressMode::ClampToEdge
sampler_address_mode(mode) == IF mode = "Repeat" THEN "Repeat" ELSE "ClampToEdge"

\* The fourth loop: one drawable Texture per texture, its cache empty.
drawable_textures(src_scene) ==
    [i \in 1..Len(src_scene.textures) |->
        [name |-> src_scene.textures[i].name,
         image |-> src_scene.textures[i].image,
         sampler |-> [address_u |-> sampler_address_mode(src_scene.textures[i].wrap_mode_u),
                      address_v |-> sampler_address_mode(src_scene.textures[i].wrap_mode_v)],
         transparent |-> src_scene.textures[i].transparent,
         cache |-> [descriptor_set |-> None]]]

\* drawable::Loader::load when every upload succeeds: the drawable Scene.
drawable_load(src_scene) ==
    [name |-> None,
     geometry_meshes |-> drawable_geometry_meshes(src_scene),
     materials |-> drawable_materials(src_scene),
     meshes |-> drawable_meshes(src_scene),
     textures |-> drawable_textures(src_scene)]

\* drawable::Scene::bbox
Scene_bbox(drawable_scene) ==
    from_iter_boxes([i \in 1..Len(drawable_scene.geometry_meshes) |->
                        drawable_scene.geometry_meshes[i].bounding_box])

(***************************************************************************)
(* SpecBBox: the bounding box of a Scene, as the viewer asks for it        *)
(***************************************************************************)
MaxBBoxMeshes == 2

MaxBBoxPoints == 2

BBoxPoints == {<<1, 2, 3>>, <<3, 1, -2>>, <<-1, 4, 2>>}

\* A GeometryMesh with the given positions.
BBoxGeometryMesh(positions) ==
    [name |-> None, positions |-> positions, normals |-> <<>>, uv |-> <<>>,
     indices_per_material |-> <<>>]

InitBBox ==
    /\ \E n \in 0..MaxBBoxMeshes :
       \E lens \in [1..n -> 0..MaxBBoxPoints] :
       \E ms \in [1..n -> [1..MaxBBoxPoints -> BBoxPoints]] :
           scene = [Scene_new EXCEPT !.geometry_meshes =
                       [i \in 1..n |-> BBoxGeometryMesh(SubSeq(ms[i], 1, lens[i]))]]
    /\ issued = <<>>
    /\ IdleTri /\ IdleLoad

\* drawable_scene.bbox().bounding_box() on the Scene loaded as drawable data.
QueryBBox ==
    /\ ret = None
    /\ ret' = Some([ok |-> TRUE, bbox |-> Scene_bbox(drawable_load(scene))])
    /\ UNCHANGED <<scene, issued, tri_in, tri_out, self, doc>>

NextBBox == QueryBBox

SpecBBox == InitBBox /\ [][NextBBox]_vars

\* All positions of all geometry meshes of the Scene.
AllPositions ==
    UNION {{scene.geometry_meshes[i].positions[k] :
               k \in 1..Len(scene.geometry_meshes[i].positions)} :
           i \in 1..Len(scene.geometry_meshes)}

\* The least and the greatest value of a coordinate among the points.
Least(points, c) == CHOOSE v \in {p[c] : p \in points} : \A p \in points : v <= p[c]

Greatest(points, c) == CHOOSE v \in {p[c] : p \in points} : \A p \in points : v >= p[c]

\* C19: the bounding box of the Scene is None exactly when no geometry mesh
\* has a position; otherwise its min and max are, coordinate by coordinate,
\* the least and the greatest value over all positions of all geometry
\* meshes, whatever the order of meshes and points and however many meshes
\* are empty.
C19_SceneBBox ==
    IsSome(ret) =>
        /\ Unwrap(ret).bbox = None <=> AllPositions = {}
        /\ AllPositions # {} =>
               /\ Unwrap(Unwrap(ret).bbox).min = [c \in 1..3 |-> Least(AllPositions, c)]
               /\ Unwrap(Unwrap(ret).bbox).max = [c \in 1..3 |-> Greatest(AllPositions, c)]

\* The box of a Scene whose first geometry mesh is empty and whose second
\* has two points.
C19_Witness ==
    /\ IsSome(ret)
    /\ Len(scene.geometry_meshes) = 2
    /\ scene.geometry_meshes[1].positions = <<>>
    /\ scene.geometry_meshes[2].positions = << <<3, 1, -2>>, <<-1, 4, 2>> >>
    /\ Unwrap(ret).bbox = Some([min |-> <<-1, 1, -2>>, max |-> <<3, 4, 2>>])

\* The box of a Scene without geometry meshes, and of one with empty ones only.
C19_WitnessNoMeshes ==
    /\ IsSome(ret)
    /\ scene.geometry_meshes = <<>>
    /\ Unwrap(ret).bbox = None

C19_WitnessEmptyMeshes ==
    /\ IsSome(ret)
    /\ Len(scene.geometry_meshes) = 2
    /\ AllPositions = {}
    /\ Unwrap(ret).bbox = None

(***************************************************************************)
(* SpecProj: the projection of the n >= 5 arm of triangulator              *)
(*                                                                         *)
(* tri_in holds the five points of a polygon whose bounding box has the    *)
(* extents drawn at the start; the step computes points_2d for them.       *)
(***************************************************************************)
MaxExtent == 3

\* Five points whose bounding box has the given extents: each coordinate
\* takes its least and its greatest value at some point.
ExtentPoints(w) ==
    << <<1, -2, 3>>,
       <<1 + w[1], -2, 3>>,
       <<1 + w[1], -2 + w[2], 3>>,
       <<1, -2 + w[2], 3 + w[3]>>,
       <<1, -2, 3 + w[3]>> >>

InitProj ==
    /\ \E w \in [1..3 -> 0..MaxExtent] :
           tri_in = Some([points |-> ExtentPoints(w), width |-> w])
    /\ tri_out = None
    /\ IdleScene /\ IdleLoad

\* let points_2d = { ... } of the n >= 5 arm.
Project ==
    /\ tri_out = None
    /\ tri_out' = Some([points_2d |-> points_2d(Unwrap(tri_in).points)])
    /\ UNCHANGED <<scene, issued, tri_in, self, doc, ret>>

NextProj == Project

SpecProj == InitProj /\ [][NextProj]_vars

\* The points without the coordinate of the axis.
Drop(points, axis) ==
    [i \in 1..Len(points) |->
        CASE axis = "X" -> <<points[i][2], points[i][3]>>
          [] axis = "Y" -> <<points[i][1], points[i][3]>>
          [] OTHER -> <<points[i][1], points[i][2]>>]

\* The axis of smallest extent, X before Y before Z when extents are equal.
SmallestXYZ(w) ==
    IF w[1] <= w[2] /\ w[1] <= w[3] THEN "X"
    ELSE IF w[2] <= w[3] THEN "Y"
    ELSE "Z"

\* The axis of smallest extent, Y before X before Z when extents are equal.
SmallestYXZ(w) ==
    IF w[2] <= w[1] /\ w[2] <= w[3] THEN "Y"
    ELSE IF w[1] <= w[3] THEN "X"
    ELSE "Z"

\* C21 as stated: the projection drops an axis of smallest bounding-box
\* extent, and X before Y before Z when two or three extents are equal.
C21_SmallestAxisXYZ ==
    IsSome(tri_out) =>
        Unwrap(tri_out).points_2d
            = Drop(Unwrap(tri_in).points, SmallestXYZ(Unwrap(tri_in).width))

\* C21, amended: the projection drops an axis of smallest bounding-box
\* extent, and Y before X before Z when two or three extents are equal: Y on a
\* tie of X and Y, of Y and Z and of all three, X on a tie of X and Z.
C21_SmallestAxisYXZ ==
    IsSome(tri_out) =>
        Unwrap(tri_out).points_2d
            = Drop(Unwrap(tri_in).points, SmallestYXZ(Unwrap(tri_in).width))

\* The projection of a polygon whose X and Y extents are equal and smaller
\* than its Z extent has dropped Y and kept X.
C21_Witness ==
    /\ IsSome(tri_out)
    /\ Unwrap(tri_in).width = <<1, 1, 2>>
    /\ Unwrap(tri_out).points_2d = Drop(Unwrap(tri_in).points, "Y")
    /\ Unwrap(tri_out).points_2d # Drop(Unwrap(tri_in).points, "X")

\* The same when X and Z tie below Y: X is dropped.
C21_WitnessXZ ==
    /\ IsSome(tri_out)
    /\ Unwrap(tri_in).width = <<1, 2, 1>>
    /\ Unwrap(tri_out).points_2d = Drop(Unwrap(tri_in).points, "X")
    /\ Unwrap(tri_out).points_2d # Drop(Unwrap(tri_in).points, "Z")

\* The control points of the polygon of tri_in as the n >= 5 arm projects
\* them: without the axis of smallest bounding-box extent.
Projected(cps) ==
    Drop(cps, SmallestYXZ([c \in 1..3 |->
                  Greatest({cps[i] : i \in 1..Len(cps)}, c)
                      - Least({cps[i] : i \in 1..Len(cps)}, c)]))

\* The vertices (0-based) whose projected turn test is true.
TurnsTrue(cps) == {i - 1 : i \in {j \in 1..Len(cps) : Turn(Projected(cps), j) > 0}}

\* The fan of a polygon of n vertices from anchor a.
FanFrom(a, n) == [k \in 1..(n - 2) |-> <<a, (a + k) % n, (a + k + 1) % n>>]

\* C22: for n >= 5, with c the number of vertices whose projected turn test
\* is true: for c = 1 the fan is anchored at the vertex whose test is true, for
\* c = n - 1 at the vertex whose test is false, for c = 0 and c = n at vertex
\* 0; for 2 <= c <= n - 2 the call fails and appends nothing.  The fan from
\* anchor a is [a, a+1+k, a+2+k] (mod n) for k = 0 .. n-3, in that order.
C22_FanAnchor ==
    \A in \in {Unwrap(tri_in)} :
        (IsSome(tri_out) /\ Len(in.flat) >= 5) =>
            \A n \in {Len(in.flat)} : \A t \in {TurnsTrue(in.pvs.control_points)} :
                /\ Cardinality(t) = 1
                       => /\ Unwrap(tri_out).ok
                          /\ \A a \in t : TriAppended = FanFrom(a, n)
                /\ Cardinality(t) = n - 1
                       => /\ Unwrap(tri_out).ok
                          /\ \A a \in (0..(n - 1)) \ t : TriAppended = FanFrom(a, n)
                /\ Cardinality(t) \in {0, n}
                       => /\ Unwrap(tri_out).ok
                          /\ TriAppended = FanFrom(0, n)
                /\ Cardinality(t) \in 2..(n - 2)
                       => /\ ~Unwrap(tri_out).ok
                          /\ TriAppended = <<>>

\* A hexagon with a single true turn test, at vertex 4, was fanned from there.
C22_Witness ==
    /\ IsSome(tri_out)
    /\ Len(Unwrap(tri_in).flat) = 6
    /\ TurnsTrue(Unwrap(tri_in).pvs.control_points) = {4}
    /\ TriAppended = << <<4, 5, 0>>, <<4, 0, 1>>, <<4, 1, 2>>, <<4, 2, 3>> >>

\* A pentagon with a single false turn test, at vertex 2, was fanned from there.
C22_WitnessFalse ==
    /\ IsSome(tri_out)
    /\ Len(Unwrap(tri_in).flat) = 5
    /\ TurnsTrue(Unwrap(tri_in).pvs.control_points) = {0, 1, 3, 4}
    /\ TriAppended = << <<2, 3, 4>>, <<2, 4, 0>>, <<2, 0, 1>> >>

\* Pentagons with no and with five true turn tests were fanned from vertex 0,
\* and a hexagon with three was refused.
C22_WitnessNone ==
    /\ IsSome(tri_out)
    /\ Len(Unwrap(tri_in).flat) = 5
    /\ TurnsTrue(Unwrap(tri_in).pvs.control_points) = {}
    /\ Unwrap(tri_in).plane = "xy"
    /\ TriAppended = FanFrom(0, 5)

C22_WitnessAll ==
    /\ IsSome(tri_out)
    /\ Len(Unwrap(tri_in).flat) = 5
    /\ TurnsTrue(Unwrap(tri_in).pvs.control_points) = 0..4
    /\ TriAppended = FanFrom(0, 5)

C22_WitnessRefused ==
    /\ IsSome(tri_out)
    /\ Len(Unwrap(tri_in).flat) = 6
    /\ Cardinality(TurnsTrue(Unwrap(tri_in).pvs.control_points)) = 2
    /\ ~Unwrap(tri_out).ok

\* The four kinds of Scene collections.
Kinds == {"geometry_mesh", "material", "mesh", "texture"}

\* The step appends exactly the element of the add_* call to the collection
\* of its kind and leaves the other collections and the name as they were.
AppendsOne ==
    \A e \in {issued'[Len(issued')]} :
        /\ Collection(e.kind, scene') = Append(Collection(e.kind, scene), e.elem)
        /\ \A kind \in Kinds \ {e.kind} : Collection(kind, scene') = Collection(kind, scene)
        /\ scene'.name = scene.name

\* An accessor called with an index past the end of its collection returns None.
PastTheEndIsNone ==
    \A kind \in Kinds :
        \A i \in Len(Collection(kind, scene))..(MaxAdds + 1) : Accessor(kind, scene, i) = None

\* C23: each add_* call appends exactly one element to its own collection and
\* leaves the other three collections and the scene name unchanged; for every
\* index issued earlier the accessor returns after the call what it returned
\* before; and an accessor called with an index past the end returns None.
C23_AppendOnly ==
    /\ [][/\ AppendsOne
          /\ \A k \in 1..Len(issued) :
                 Accessor(issued[k].kind, scene', issued[k].index)
                     = Accessor(issued[k].kind, scene, issued[k].index)]_vars
    /\ []PastTheEndIsNone

\* The number of material objects in the list that have a texture.
WithTexture(material_ids) ==
    Cardinality({j \in 1..Len(material_ids) :
                    IsSome(diffuse_texture_slot(MaterialObjs[material_ids[j]]))})

\* C24: a Scene returned by a successful load has one Mesh per mesh model
\* object taken from the document, in the order they were taken, objects of
\* other kinds add none, and entry j of the materials of a Mesh is the
\* Material of the j-th material object of its mesh model.  In the step for a
\* mesh model the materials and their textures are appended before the
\* geometry mesh is built, and the Mesh after it: when the geometry mesh fails
\* the materials and textures are in the Scene and no GeometryMesh or Mesh is,
\* when a material fails no GeometryMesh or Mesh is, and on success the Mesh is
\* the last element of meshes and refers to the last GeometryMesh.
C24_LoadOrder ==
    /\ [](Returned =>
            \A sc \in Scenes :
                /\ Len(sc.meshes) = Len(MeshModels)
                /\ \A k \in 1..Len(MeshModels) :
                      /\ sc.meshes[k].name = ObjName(MeshModels[k].id)
                      /\ Len(sc.meshes[k].materials) = Len(MeshModels[k].materials)
                      /\ \A j \in 1..Len(MeshModels[k].materials) :
                             /\ IsSome(material(sc, sc.meshes[k].materials[j]))
                             /\ Unwrap(material(sc, sc.meshes[k].materials[j])).name
                                    = ObjName(MeshModels[k].materials[j]))
    /\ [][\A m \in {doc'[k] : k \in (Len(doc) + 1)..Len(doc')} :
              IF IsSome(self) /\ m.kind = "MeshModel" /\ m.geometry # None
              THEN \A old \in {Unwrap(self).scene} :
                   \A r \in {load_mesh(Unwrap(self), m)} :
                   \A ms \in {load_materials(Unwrap(self), m.materials, 1, <<>>)} :
                       /\ (ms.ok /\ ~r.ok) =>
                              /\ Len(r.self.scene.materials)
                                     = Len(old.materials) + Len(m.materials)
                              /\ Len(r.self.scene.textures)
                                     = Len(old.textures) + WithTexture(m.materials)
                              /\ r.self.scene.geometry_meshes = old.geometry_meshes
                              /\ r.self.scene.meshes = old.meshes
                       /\ ~ms.ok =>
                              /\ ~r.ok
                              /\ r.self.scene.geometry_meshes = old.geometry_meshes
                              /\ r.self.scene.meshes = old.meshes
                       /\ r.ok =>
                              /\ IsSome(self')
                              /\ Unwrap(self') = r.self
                              /\ Len(r.self.scene.meshes) = Len(old.meshes) + 1
                              /\ Len(r.self.scene.geometry_meshes)
                                     = Len(old.geometry_meshes) + 1
                              /\ r.self.scene.meshes[Len(r.self.scene.meshes)].geometry_mesh_index
                                     = Len(r.self.scene.geometry_meshes) - 1
                              /\ SubSeq(r.self.scene.materials, 1, Len(old.materials))
                                     = old.materials
              ELSE IsSome(self) /\ IsSome(self')
                       => Unwrap(self').scene = Unwrap(self).scene]_vars

\* A load returned a Scene for a document with an object of another kind
\* before a mesh model with two different materials.
C24_Witness ==
    /\ Returned
    /\ Len(doc) = 2
    /\ doc[1].kind = "Other"
    /\ Len(MeshModels) = 1
    /\ MeshModels[1].materials = <<"mTransp", "mLambert">>
    /\ Len(Unwrap(ret).scene.meshes) = 1
    /\ Unwrap(ret).scene.meshes[1].name = ObjName(2)
    /\ Unwrap(ret).scene.meshes[1].materials = <<0, 1>>

\* A load returned a Scene for a document of two mesh models.
C24_WitnessTwo ==
    /\ Returned
    /\ Len(MeshModels) = 2
    /\ MeshModels[1].materials = <<"mLambert">>
    /\ MeshModels[2].materials = <<"mPhongTex", "mLambert">>
    /\ Unwrap(ret).scene.meshes[2].name = ObjName(2)

\* The geometry mesh of a mesh model with two textured materials failed.
C24_WitnessGeometryFails ==
    /\ Failed
    /\ Len(MeshModels) = 1
    /\ MeshModels[1].geometry = Some("gNoUv")
    /\ MeshModels[1].materials = <<"mTransp", "mPhongTex">>

\* C25: in every GeometryMesh of the Scene, with T triangles, every triangle
\* corner 0 .. 3T-1 occurs exactly once in the sublists of
\* indices_per_material taken together, every entry is < positions.len(), and
\* every sublist is strictly increasing; the material layers of the document
\* give one material per polygon or one for all, so every sublist has a length
\* divisible by 3 and its consecutive triples are 3t, 3t+1, 3t+2.
C25_IndexPartition ==
    \A sc \in Scenes : \A g \in 1..Len(sc.geometry_meshes) :
        \A gm \in {sc.geometry_meshes[g]} :
            /\ Len(gm.positions) % 3 = 0
            /\ \A c \in 0..(Len(gm.positions) - 1) :
                   SumLen([s \in 1..Len(gm.indices_per_material) |->
                              SelectSeq(gm.indices_per_material[s], LAMBDA v : v = c)]) = 1
            /\ \A s \in 1..Len(gm.indices_per_material) :
                   \A sub \in {gm.indices_per_material[s]} :
                       /\ \A i \in 1..Len(sub) : sub[i] \in 0..(Len(gm.positions) - 1)
                       /\ \A i \in 1..(Len(sub) - 1) : sub[i] < sub[i + 1]
                       /\ Len(sub) % 3 = 0
                       /\ \A i \in 1..Len(sub) :
                              i % 3 = 1 => /\ sub[i] % 3 = 0
                                           /\ sub[i + 1] = sub[i] + 1
                                           /\ sub[i + 2] = sub[i] + 2

\* The triangle and pentagon geometry was loaded with two materials: the
\* triangle's corners are in the first sublist, the pentagon's in the second.
C25_Witness ==
    /\ Returned
    /\ Len(MeshModels) = 1
    /\ MeshModels[1].geometry = Some("gTriPent")
    /\ Unwrap(ret).scene.geometry_meshes[1].indices_per_material
           = << <<0, 1, 2>>, <<3, 4, 5, 6, 7, 8, 9, 10, 11>> >>

\* The position of polygon vertex v in the polygon.
PositionIn(poly_pvis, v) == CHOOSE i \in 1..Len(poly_pvis) : poly_pvis[i] = v

\* a, b, c are in increasing order up to rotation.
CyclicOrder(a, b, c) == (a < b /\ b < c) \/ (b < c /\ c < a) \/ (c < a /\ a < b)

\* C26: every triangle triangulator appends lists three polygon vertices of
\* the input polygon, pairwise distinct, in the cyclic order in which they
\* occur in the polygon.
C26_TriangleWinding ==
    IsSome(tri_out) =>
        \A t \in 1..Len(TriAppended) : \A poly \in {Unwrap(tri_in).poly_pvis} :
            /\ \A j \in 1..3 : \E i \in 1..Len(poly) : poly[i] = TriAppended[t][j]
            /\ CyclicOrder(PositionIn(poly, TriAppended[t][1]),
                           PositionIn(poly, TriAppended[t][2]),
                           PositionIn(poly, TriAppended[t][3]))

\* A pentagon was fanned from its vertex 3: the fan wraps around the end of
\* the polygon.
C26_Witness ==
    /\ IsSome(tri_out)
    /\ Len(Unwrap(tri_in).poly_pvis) = 5
    /\ Len(TriAppended) = 3
    /\ TriAppended[1][1] = Unwrap(tri_in).poly_pvis[4]
    /\ TriAppended[2][3] = Unwrap(tri_in).poly_pvis[2]

\* A triangle was passed through, and a quad was cut between corners 1 and 3.
C26_WitnessTriangle ==
    /\ IsSome(tri_out)
    /\ Len(Unwrap(tri_in).poly_pvis) = 3
    /\ Len(TriAppended) = 1

C26_WitnessQuad ==
    /\ IsSome(tri_out)
    /\ Len(Unwrap(tri_in).poly_pvis) = 4
    /\ Len(TriAppended) = 2
    /\ TriAppended[1][3] = Unwrap(tri_in).poly_pvis[4]
    /\ TriAppended[2][1] = Unwrap(tri_in).poly_pvis[4]

(***************************************************************************)
(* SpecDrawable: the Scene that fbx::load returned, loaded as drawable     *)
(* data.  ret holds what fbx::load returned; scene is the drawable Scene   *)
(* that drawable::Loader::load builds and issued its outcome.              *)
(***************************************************************************)
\* What the device can refuse while the scene is uploaded.
DrawableUploads == {"none", "vertices", "indices", "material", "image", "sampler"}

\* Whether the load gets to the upload that the device refuses.
upload_attempted(src_scene, refused) ==
    CASE refused = "vertices" -> Len(src_scene.geometry_meshes) > 0
      [] refused = "indices" ->
            \E i \in 1..Len(src_scene.geometry_meshes) :
                Len(src_scene.geometry_meshes[i].indices_per_material) > 0
      [] refused = "material" -> Len(src_scene.materials) > 0
      [] refused \in {"image", "sampler"} -> Len(src_scene.textures) > 0
      [] OTHER -> FALSE

\* The context of the error of a refused upload.
upload_error(refused) ==
    CASE refused = "vertices" -> "DeviceMemoryAllocError"
      [] refused = "indices" -> "Failed to upload index buffers"
      [] refused = "material" -> "Failed to upload material"
      [] refused = "image" -> "Failed to upload texture image"
      [] OTHER -> "Failed to create sampler"

\* drawable::Loader::load: Ok((scene, self.future)), or the error of the
\* first upload the device refuses.
drawable_Loader_load(src_scene, refused) ==
    IF upload_attempted(src_scene, refused)
    THEN [ok |-> FALSE, err |-> upload_error(refused)]
    ELSE [ok |-> TRUE, scene |-> drawable_load(src_scene), err |-> ""]

\* drawable::Scene::geometry_mesh
Scene_geometry_mesh(drawable_scene, i) ==
    IF i < Len(drawable_scene.geometry_meshes)
    THEN Some(drawable_scene.geometry_meshes[i + 1]) ELSE None

\* drawable::Scene::material
Scene_material(drawable_scene, i) ==
    IF i < Len(drawable_scene.materials)
    THEN Some(drawable_scene.materials[i + 1]) ELSE None

\* drawable::Scene::texture
Scene_texture(drawable_scene, i) ==
    IF i < Len(drawable_scene.textures)
    THEN Some(drawable_scene.textures[i + 1]) ELSE None

\* drawable::Loader::new(device, queue).load(&scene) in main, once fbx::load
\* has returned a Scene.
DrawableLoad ==
    /\ Returned
    /\ issued = <<>>
    /\ \E refused \in DrawableUploads :
       \E r \in {drawable_Loader_load(Unwrap(ret).scene, refused)} :
           /\ scene' = IF r.ok THEN r.scene ELSE scene
           /\ issued' = <<[kind |-> "drawable", ok |-> r.ok, err |-> r.err]>>
    /\ UNCHANGED <<tri_in, tri_out, self, doc, ret>>

NextDrawable == NextLoad \/ DrawableLoad

SpecDrawable == InitLoad /\ [][NextDrawable]_vars

\* The scene has been loaded as drawable data.
DrawableLoaded == Returned /\ issued # <<>> /\ issued[1].ok

\* The indices that are looked up: every valid one and the first invalid ones.
ArenaIndices == 0..(MaxObjects * MaxMaterials + 1)

\* C30: the drawable Loader preserves the arena layout of the source Scene.
\* The drawable scene has as many geometry meshes, materials, meshes and
\* textures as the source, and every index denotes in the drawable scene the
\* entity derived from the one it denotes in the source: same name, same
\* diffuse_texture, same transparent flag, the same index sublists in the
\* same order, and the meshes copied unchanged.
C30_ArenaLayout ==
    DrawableLoaded =>
        /\ Len(scene.geometry_meshes) = Len(Unwrap(ret).scene.geometry_meshes)
        /\ Len(scene.materials) = Len(Unwrap(ret).scene.materials)
        /\ Len(scene.textures) = Len(Unwrap(ret).scene.textures)
        /\ scene.meshes = Unwrap(ret).scene.meshes
        /\ \A i \in ArenaIndices :
            /\ IsSome(Scene_geometry_mesh(scene, i))
                   <=> IsSome(geometry_mesh(Unwrap(ret).scene, i))
            /\ IsSome(Scene_geometry_mesh(scene, i)) =>
                /\ Unwrap(Scene_geometry_mesh(scene, i)).name
                       = Unwrap(geometry_mesh(Unwrap(ret).scene, i)).name
                /\ Unwrap(Scene_geometry_mesh(scene, i)).indices_per_material
                       = Unwrap(geometry_mesh(Unwrap(ret).scene, i)).indices_per_material
            /\ IsSome(Scene_material(scene, i)) <=> IsSome(material(Unwrap(ret).scene, i))
            /\ IsSome(Scene_material(scene, i)) =>
                /\ Unwrap(Scene_material(scene, i)).name
                       = Unwrap(material(Unwrap(ret).scene, i)).name
                /\ Unwrap(Scene_material(scene, i)).diffuse_texture
                       = Unwrap(material(Unwrap(ret).scene, i)).diffuse_texture
            /\ IsSome(Scene_texture(scene, i)) <=> IsSome(texture(Unwrap(ret).scene, i))
            /\ IsSome(Scene_texture(scene, i)) =>
                /\ Unwrap(Scene_texture(scene, i)).name
                       = Unwrap(texture(Unwrap(ret).scene, i)).name
                /\ Unwrap(Scene_texture(scene, i)).transparent
                       = Unwrap(texture(Unwrap(ret).scene, i)).transparent

\* A scene of two materials, the first without and the second with a diffuse
\* texture, has been loaded as drawable data.
C30_Witness ==
    /\ DrawableLoaded
    /\ Len(scene.materials) = 2
    /\ scene.materials[1].diffuse_texture = None
    /\ IsSome(scene.materials[2].diffuse_texture)
    /\ Len(scene.geometry_meshes) = 1
    /\ Len(scene.geometry_meshes[1].indices_per_material) = 2

\* A scene with a transparent and an opaque texture has been loaded.
C30_WitnessTextures ==
    /\ DrawableLoaded
    /\ Len(scene.textures) = 2
    /\ scene.textures[1].transparent # scene.textures[2].transparent

\* A scene of two meshes on two geometry meshes has been loaded.
C30_WitnessMeshes ==
    /\ DrawableLoaded
    /\ Len(scene.meshes) = 2
    /\ Len(scene.geometry_meshes) = 2

(***************************************************************************)
(* SpecViewer: the event loop of the viewer (bin/fbx-viewer/vulkan.rs)     *)
(*                                                                         *)
(* self holds the variables the `move` closure of event_loop.run captured, *)
(* scene the drawable_scene among them, and issued the command buffers     *)
(* the closure has handed to the queue, each with the outcome of its       *)
(* flush.  A swapchain, a pipeline and a set of framebuffers are named by  *)
(* the number of recreations they come from; a descriptor set by the       *)
(* pipeline it was created with.  A handler runs to its end as one step.   *)
(***************************************************************************)
MaxRecreations == 2

MaxFrames == 2

MaxViewerMaterials == 2

ViewerMaterialIds == {"mLambert", "mPhongTex", "mTransp"}

\* Window sizes: minimised, and two sizes of different aspect ratio.
WindowSizes == {<<0, 0>>, <<4, 3>>}

\* create_material_desc_set, create_diffuse_texture_desc_set
desc_set(pipeline) == [pipeline |-> pipeline]

\* A reset that clears the texture caches and fills only the material caches.
reset_cache_with_pipeline_materials_only(drawable_scene, pipeline) ==
    [drawable_scene EXCEPT
        !.materials = [i \in 1..Len(@) |->
            [@[i] EXCEPT !.cache = [uniform_buffer |-> Some(desc_set(pipeline))]]],
        !.textures = [i \in 1..Len(@) |->
            [@[i] EXCEPT !.cache = [descriptor_set |-> None]]]]

\* drawable::Scene::reset_cache_with_pipeline when every descriptor set is
\* created.
reset_cache_with_pipeline(drawable_scene, pipeline) ==
    [drawable_scene EXCEPT
        !.materials = [i \in 1..Len(@) |->
            [@[i] EXCEPT !.cache = [uniform_buffer |-> Some(desc_set(pipeline))]]],
        !.textures = [i \in 1..Len(@) |->
            [@[i] EXCEPT !.cache = [descriptor_set |-> Some(desc_set(pipeline))]]]]

\* drawable::Scene::reset_cache_with_pipeline when the first descriptor set
\* cannot be created: the cache it was for has been reset.
reset_cache_refused(drawable_scene) ==
    IF Len(drawable_scene.materials) > 0
    THEN [drawable_scene EXCEPT !.materials[1].cache = [uniform_buffer |-> None]]
    ELSE [drawable_scene EXCEPT !.textures[1].cache = [descriptor_set |-> None]]

\* The Scene of a document of one mesh model on the quad geometry.
ViewerScene(material_ids) ==
    load_mesh(Loader_new, MeshModel(1, Some("gQuad"), material_ids)).self.scene

\* The captured variables when event_loop.run is entered.
ViewerEnv ==
    [previous_frame |-> Some("resources"),
     recreate_swapchain |-> FALSE,
     swapchain |-> 0, pipeline |-> 0, framebuffers |-> 0,
     dummy_texture_desc_set |-> desc_set(0),
     dimensions |-> <<4, 3>>, window |-> <<4, 3>>,
     camera |-> [position |-> "initial", posture |-> "initial"],
     kbd_modifiers |-> [shift |-> FALSE, ctrl |-> FALSE],
     control_flow |-> "Poll",
     panic |-> None]

InitViewer ==
    /\ \E n \in 0..MaxViewerMaterials : \E ms \in [1..n -> ViewerMaterialIds] :
           scene = reset_cache_with_pipeline(drawable_load(ViewerScene(ms)), 0)
    /\ self = Some(ViewerEnv)
    /\ issued = <<>>
    /\ IdleTri
    /\ doc = <<>> /\ ret = None

\* The handler is left by a panic.
Panic(st, msg) == [st EXCEPT !.env.panic = Some(msg), !.returned = TRUE]

\* previous_frame.as_mut().expect(..).cleanup_finished()
redraw_cleanup_finished(st) ==
    IF st.env.previous_frame = None
    THEN Panic(st, "Should never fail: a future for the previous frame should be available")
    ELSE st

\* The replacement of the pipeline, the framebuffers, the dummy descriptor
\* set and the caches once the swapchain has been recreated.
redraw_replace(st, recreation) ==
    CASE recreation = "SetupError" ->
            Panic(st, "Failed to set up pipeline and framebuffers")
      [] recreation = "DescriptorSetError" ->
            Panic([st EXCEPT !.env.pipeline = @ + 1, !.env.framebuffers = @ + 1],
                  "Failed to create diffuse texture descriptor set")
      [] recreation = "CacheError"
           /\ Len(st.drawable_scene.materials) + Len(st.drawable_scene.textures) > 0 ->
            Panic([st EXCEPT !.env.pipeline = @ + 1, !.env.framebuffers = @ + 1,
                             !.env.dummy_texture_desc_set = desc_set(st.env.pipeline + 1),
                             !.drawable_scene = reset_cache_refused(@)],
                  "Failed to reset scene cash")
      [] OTHER ->
            [st EXCEPT !.env.pipeline = @ + 1, !.env.framebuffers = @ + 1,
                       !.env.dummy_texture_desc_set = desc_set(st.env.pipeline + 1),
                       !.drawable_scene =
                           reset_cache_with_pipeline(@, st.env.pipeline + 1),
                       !.env.previous_frame = Some("now"),
                       !.env.recreate_swapchain = FALSE]

\* A handler that believes the recreation done as soon as it has asked for it.
redraw_recreate_swapchain_clears_first(st, recreation) ==
    IF st.returned \/ ~st.env.recreate_swapchain THEN st
    ELSE CASE recreation = "UnsupportedDimensions" ->
                [st EXCEPT !.env.dimensions = st.env.window,
                           !.env.recreate_swapchain = FALSE, !.returned = TRUE]
           [] recreation = "SwapchainError" ->
                Panic([st EXCEPT !.env.dimensions = st.env.window],
                      "Failed to recreate swapchain")
           [] OTHER ->
                redraw_replace([st EXCEPT !.env.dimensions = st.env.window,
                                          !.env.swapchain = @ + 1], recreation)

\* if recreate_swapchain { .. }
redraw_recreate_swapchain(st, recreation) ==
    IF st.returned \/ ~st.env.recreate_swapchain THEN st
    ELSE CASE recreation = "UnsupportedDimensions" ->
                [st EXCEPT !.env.dimensions = st.env.window, !.returned = TRUE]
           [] recreation = "SwapchainError" ->
                Panic([st EXCEPT !.env.dimensions = st.env.window],
                      "Failed to recreate swapchain")
           [] OTHER ->
                redraw_replace([st EXCEPT !.env.dimensions = st.env.window,
                                          !.env.swapchain = @ + 1], recreation)

\* The uniform buffer and set0, then acquire_next_image and is_suboptimal.
redraw_acquire_next_image(st, acquisition) ==
    IF st.returned THEN st
    ELSE CASE acquisition = "UniformError" ->
                Panic(st, "Failed to put data into uniform buffer")
           [] acquisition = "OutOfDate" ->
                [st EXCEPT !.env.recreate_swapchain = TRUE, !.returned = TRUE]
           [] acquisition = "AcquireError" ->
                Panic(st, "acquire_next_image() failed")
           [] acquisition = "Suboptimal" ->
                [st EXCEPT !.env.recreate_swapchain = TRUE]
           [] OTHER -> st

\* The expectation that fails when the draw of the k-th material of the
\* mesh is put together, if one does.
draw_panic(drawable_scene, drawable_mesh, k) ==
    IF Scene_material(drawable_scene, drawable_mesh.materials[k]) = None
    THEN Some("Material index out of range")
    ELSE IF Unwrap(Scene_material(drawable_scene,
                       drawable_mesh.materials[k])).cache.uniform_buffer = None
    THEN Some("Material uniform buffer should be uploaded")
    ELSE IF Unwrap(Scene_material(drawable_scene,
                       drawable_mesh.materials[k])).diffuse_texture = None
    THEN None
    ELSE IF Scene_texture(drawable_scene,
                Unwrap(Unwrap(Scene_material(drawable_scene,
                                  drawable_mesh.materials[k])).diffuse_texture)) = None
    THEN Some("Material index out of range")
    ELSE IF Unwrap(Scene_texture(drawable_scene,
                Unwrap(Unwrap(Scene_material(drawable_scene,
                    drawable_mesh.materials[k])).diffuse_texture))).cache.descriptor_set = None
    THEN Some("Descriptor set for texture should be initialized but not")
    ELSE None

\* mesh.materials.iter().zip(geometry_mesh.indices_per_material.iter()): the
\* number of pairs.
zip_len(drawable_scene, drawable_mesh) ==
    Min2(Len(drawable_mesh.materials),
         Len(Unwrap(Scene_geometry_mesh(drawable_scene,
                        drawable_mesh.geometry_mesh_index)).indices_per_material))

\* The expectation that fails while the draws of the mesh are collected.
mesh_panic(drawable_scene, drawable_mesh) ==
    IF Scene_geometry_mesh(drawable_scene, drawable_mesh.geometry_mesh_index) = None
    THEN Some("Geometry drawable_mesh index out of range")
    ELSE IF \A k \in 1..zip_len(drawable_scene, drawable_mesh) :
                draw_panic(drawable_scene, drawable_mesh, k) = None
    THEN None
    ELSE draw_panic(drawable_scene, drawable_mesh,
             CHOOSE k \in 1..zip_len(drawable_scene, drawable_mesh) :
                 /\ draw_panic(drawable_scene, drawable_mesh, k) # None
                 /\ \A j \in 1..(k - 1) : draw_panic(drawable_scene, drawable_mesh, j) = None)

\* The expectation that fails while the command buffer is built, if any.
RECURSIVE command_buffer_panic(_, _)
command_buffer_panic(drawable_scene, i) ==
    IF i > Len(drawable_scene.meshes) THEN None
    ELSE IF mesh_panic(drawable_scene, drawable_scene.meshes[i]) # None
    THEN mesh_panic(drawable_scene, drawable_scene.meshes[i])
    ELSE command_buffer_panic(drawable_scene, i + 1)

\* The texture descriptor set of a material: the one cached for its diffuse
\* texture, or the dummy one.
texture_desc_set(drawable_scene, dummy, drawable_mat) ==
    IF drawable_mat.diffuse_texture = None THEN dummy
    ELSE Unwrap(Unwrap(Scene_texture(drawable_scene,
                           Unwrap(drawable_mat.diffuse_texture))).cache.descriptor_set)

\* texture.map_or(false, |t| t.transparent)
is_transparent(drawable_scene, drawable_mat) ==
    IF drawable_mat.diffuse_texture = None THEN FALSE
    ELSE Unwrap(Scene_texture(drawable_scene,
                    Unwrap(drawable_mat.diffuse_texture))).transparent

\* The draw of the k-th material of the mesh.
stuff(drawable_scene, dummy, drawable_mesh, k) ==
    [vertices |-> drawable_mesh.geometry_mesh_index,
     index_buffer |-> k - 1,
     material |-> drawable_mesh.materials[k],
     material_desc_set |->
         Unwrap(Unwrap(Scene_material(drawable_scene,
                           drawable_mesh.materials[k])).cache.uniform_buffer),
     texture_desc_set |->
         texture_desc_set(drawable_scene, dummy,
                          Unwrap(Scene_material(drawable_scene, drawable_mesh.materials[k]))),
     transparent |->
         is_transparent(drawable_scene,
                        Unwrap(Scene_material(drawable_scene, drawable_mesh.materials[k])))]

\* The draws of the meshes from the i-th on, in the order of the loop.
RECURSIVE meshes_stuff(_, _, _)
meshes_stuff(drawable_scene, dummy, i) ==
    IF i > Len(drawable_scene.meshes) THEN <<>>
    ELSE [k \in 1..zip_len(drawable_scene, drawable_scene.meshes[i]) |->
             stuff(drawable_scene, dummy, drawable_scene.meshes[i], k)]
         \o meshes_stuff(drawable_scene, dummy, i + 1)

\* opaque_meshes.into_iter().chain(transparent_meshes)
draw_calls(drawable_scene, dummy) ==
    SelectSeq(meshes_stuff(drawable_scene, dummy, 1), LAMBDA s : ~s.transparent)
    \o SelectSeq(meshes_stuff(drawable_scene, dummy, 1), LAMBDA s : s.transparent)

\* The command buffer of a frame: the framebuffers it renders to, the
\* pipeline of its draw_indexed calls and the calls; with it the swapchain
\* it is presented to and how its flush ended.
frame(st, flush) ==
    [swapchain |-> st.env.swapchain,
     pipeline |-> st.env.pipeline,
     framebuffers |-> st.env.framebuffers,
     draws |-> draw_calls(st.drawable_scene, st.env.dummy_texture_desc_set),
     flush |-> flush]

\* A handler whose arm for the other flush errors puts no future back.
redraw_submit_error_leaves_none(st, flush) ==
    IF st.returned THEN st
    ELSE IF command_buffer_panic(st.drawable_scene, 1) # None
    THEN Panic(st, Unwrap(command_buffer_panic(st.drawable_scene, 1)))
    ELSE IF st.env.previous_frame = None
    THEN Panic(st, "Should never fail: a future for the previous frame should be available")
    ELSE CASE flush = "ExecuteError" ->
                Panic([st EXCEPT !.env.previous_frame = None],
                      "Failed to execute command buffer")
           [] flush = "Ok" ->
                [st EXCEPT !.submitted = Append(@, frame(st, flush)),
                           !.env.previous_frame = Some("frame")]
           [] flush = "OutOfDate" ->
                [st EXCEPT !.submitted = Append(@, frame(st, flush)),
                           !.env.recreate_swapchain = TRUE,
                           !.env.previous_frame = Some("now")]
           [] OTHER ->
                [st EXCEPT !.submitted = Append(@, frame(st, flush)),
                           !.env.previous_frame = None]

\* The command buffer is built, previous_frame is taken, joined, executed,
\* presented and flushed, and a future is put back.
redraw_submit(st, flush) ==
    IF st.returned THEN st
    ELSE IF command_buffer_panic(st.drawable_scene, 1) # None
    THEN Panic(st, Unwrap(command_buffer_panic(st.drawable_scene, 1)))
    ELSE IF st.env.previous_frame = None
    THEN Panic(st, "Should never fail: a future for the previous frame should be available")
    ELSE CASE flush = "ExecuteError" ->
                Panic([st EXCEPT !.env.previous_frame = None],
                      "Failed to execute command buffer")
           [] flush = "Ok" ->
                [st EXCEPT !.submitted = Append(@, frame(st, flush)),
                           !.env.previous_frame = Some("frame")]
           [] flush = "OutOfDate" ->
                [st EXCEPT !.submitted = Append(@, frame(st, flush)),
                           !.env.recreate_swapchain = TRUE,
                           !.env.previous_frame = Some("now")]
           [] OTHER ->
                [st EXCEPT !.submitted = Append(@, frame(st, flush)),
                           !.env.previous_frame = Some("now")]

\* Event::RedrawEventsCleared => { .. }
redraw_events_cleared(st, recreation, acquisition, flush) ==
    redraw_submit(
        redraw_acquire_next_image(
            redraw_recreate_swapchain(redraw_cleanup_finished(st), recreation),
            acquisition),
        flush)

\* What the device answers to a recreation, an acquisition and a flush.
Recreations ==
    {"Ok", "UnsupportedDimensions", "SwapchainError", "SetupError",
     "DescriptorSetError", "CacheError"}

Acquisitions == {"Ok", "Suboptimal", "OutOfDate", "AcquireError", "UniformError"}

Flushes == {"Ok", "OutOfDate", "FlushError", "ExecuteError"}

\* The state a handler starts from.
Handling ==
    [env |-> Unwrap(self), drawable_scene |-> scene, submitted |-> issued,
     returned |-> FALSE]

\* The event loop hands events to the closure.
Running ==
    /\ IsSome(self)
    /\ Unwrap(self).control_flow = "Poll"
    /\ Unwrap(self).panic = None

RedrawEventsCleared ==
    /\ Running
    /\ Len(issued) < MaxFrames
    /\ \E recreation \in Recreations : \E acquisition \in Acquisitions :
       \E flush \in Flushes :
           /\ Unwrap(self).swapchain < MaxRecreations
                  \/ recreation \in {"UnsupportedDimensions", "SwapchainError"}
           /\ \E r \in {redraw_events_cleared(Handling, recreation, acquisition, flush)} :
                  /\ self' = Some(r.env)
                  /\ scene' = r.drawable_scene
                  /\ issued' = r.submitted
    /\ UNCHANGED <<tri_in, tri_out, doc, ret>>

\* WindowEvent::CloseRequested => *cflow = ControlFlow::Exit
CloseRequested ==
    /\ Running
    /\ self' = Some([Unwrap(self) EXCEPT !.control_flow = "Exit"])
    /\ UNCHANGED <<scene, issued, tri_in, tri_out, doc, ret>>

\* WindowEvent::Resized(_) => recreate_swapchain = true, of a window that has
\* its new size.
window_resized(env, size) == [env EXCEPT !.window = size, !.recreate_swapchain = TRUE]

Resized ==
    /\ Running
    /\ \E size \in WindowSizes : self' = Some(window_resized(Unwrap(self), size))
    /\ UNCHANGED <<scene, issued, tri_in, tri_out, doc, ret>>

\* WindowEvent::ModifiersChanged(modifiers) => kbd_modifiers = modifiers
ModifiersChanged ==
    /\ Running
    /\ \E modifiers \in [shift : BOOLEAN, ctrl : BOOLEAN] :
           self' = Some([Unwrap(self) EXCEPT !.kbd_modifiers = modifiers])
    /\ UNCHANGED <<scene, issued, tri_in, tri_out, doc, ret>>

FORWARD == 17

BACK == 31

LEFT == 30

RIGHT == 32

ZERO == 11

\* A scan code that no arm matches.
OtherScanCode == 1

\* DeviceEvent::Key(input): the camera is told apart only by whether its
\* position and its posture are the initial ones.
key_input(camera, kbd_modifiers, scancode, pressed) ==
    IF ~pressed THEN camera
    ELSE CASE scancode \in {FORWARD, BACK} ->
                IF kbd_modifiers.shift THEN [camera EXCEPT !.position = "moved"]
                ELSE IF kbd_modifiers.ctrl THEN [camera EXCEPT !.posture = "moved"]
                ELSE [camera EXCEPT !.position = "moved"]
           [] scancode \in {LEFT, RIGHT} ->
                IF kbd_modifiers.ctrl THEN [camera EXCEPT !.posture = "moved"]
                ELSE [camera EXCEPT !.position = "moved"]
           [] scancode = ZERO ->
                IF kbd_modifiers.ctrl THEN [camera EXCEPT !.posture = "initial"]
                ELSE [camera EXCEPT !.position = "initial"]
           [] OTHER -> camera

DeviceKey ==
    /\ Running
    /\ \E scancode \in {FORWARD, BACK, LEFT, RIGHT, ZERO, OtherScanCode} :
       \E pressed \in BOOLEAN :
           self' = Some([Unwrap(self) EXCEPT !.camera =
                            key_input(@, Unwrap(self).kbd_modifiers, scancode, pressed)])
    /\ UNCHANGED <<scene, issued, tri_in, tri_out, doc, ret>>

NextViewer ==
    RedrawEventsCleared \/ CloseRequested \/ Resized \/ ModifiersChanged \/ DeviceKey

SpecViewer == InitViewer /\ [][NextViewer]_vars

\* The message of the two expectations on previous_frame.
NoPreviousFrame ==
    "Should never fail: a future for the previous frame should be available"

\* The closure has not panicked.
Alive == IsSome(self) /\ Unwrap(self).panic = None

\* C27: previous_frame is Some at the start of every RedrawEventsCleared
\* handler, whatever events came before and however recreation, acquisition
\* and flush ended: the two expectations that a future for the previous
\* frame is available never fail.
C27_PreviousFrame ==
    IsSome(self) =>
        /\ Unwrap(self).panic # Some(NoPreviousFrame)
        /\ Unwrap(self).panic = None => IsSome(Unwrap(self).previous_frame)

\* A redraw has drawn a frame after a redraw whose flush failed with an
\* error other than OutOfDate.
C27_Witness ==
    /\ Alive
    /\ Len(issued) = 2
    /\ issued[1].flush = "FlushError"
    /\ issued[2].flush = "Ok"
    /\ Unwrap(self).previous_frame = Some("frame")

\* A redraw has returned early because the window, minimised, has dimensions
\* the swapchain does not support: the future of the prepared resources is
\* still there.
C27_WitnessEarlyReturn ==
    /\ Alive
    /\ Unwrap(self).dimensions = <<0, 0>>
    /\ Unwrap(self).swapchain = 0
    /\ Unwrap(self).previous_frame = Some("resources")

\* A flush has ended with OutOfDate and the swapchain has been recreated
\* since.
C27_WitnessOutOfDate ==
    /\ Alive
    /\ Len(issued) = 1
    /\ issued[1].flush = "OutOfDate"
    /\ Unwrap(self).swapchain = issued[1].swapchain + 1
    /\ Unwrap(self).previous_frame = Some("now")

\* The last command buffer handed to the queue.
LastFrame == issued[Len(issued)]

\* A step that clears recreate_swapchain has replaced the swapchain, the
\* pipeline and the framebuffers.
ClearedByReplacement ==
    (Alive /\ Unwrap(self).recreate_swapchain /\ ~Unwrap(self').recreate_swapchain) =>
        /\ Unwrap(self').swapchain = Unwrap(self).swapchain + 1
        /\ Unwrap(self').pipeline = Unwrap(self).pipeline + 1
        /\ Unwrap(self').framebuffers = Unwrap(self).framebuffers + 1

\* A step that starts with recreate_swapchain set and hands a command buffer
\* to the queue has replaced the three before: the command buffer renders to
\* the new framebuffers with the new pipeline and is presented to the new
\* swapchain.
DrawsAfterReplacement ==
    (Alive /\ Unwrap(self).recreate_swapchain /\ Len(issued') > Len(issued)) =>
        /\ Len(issued') = Len(issued) + 1
        /\ issued'[Len(issued')].swapchain = Unwrap(self).swapchain + 1
        /\ issued'[Len(issued')].pipeline = Unwrap(self).pipeline + 1
        /\ issued'[Len(issued')].framebuffers = Unwrap(self).framebuffers + 1
        /\ Unwrap(self').swapchain = Unwrap(self).swapchain + 1
        /\ Unwrap(self').pipeline = Unwrap(self).pipeline + 1
        /\ Unwrap(self').framebuffers = Unwrap(self).framebuffers + 1

\* What sets recreate_swapchain: a Resized event, an image acquisition that
\* ends OutOfDate or suboptimal, and a flush that ends OutOfDate.
SetsFlag ==
    Running =>
        /\ \A size \in WindowSizes : window_resized(Unwrap(self), size).recreate_swapchain
        /\ \A recreation \in {"Ok", "UnsupportedDimensions"} :
           \A acquisition \in {"Ok", "Suboptimal", "OutOfDate"} :
           \A flush \in {"Ok", "OutOfDate", "FlushError"} :
           \A r \in {redraw_events_cleared(Handling, recreation, acquisition, flush)} :
               (/\ r.env.panic = None
                /\ \/ acquisition = "OutOfDate"
                   \/ acquisition = "Suboptimal"
                   \/ flush = "OutOfDate" /\ Len(r.submitted) > Len(issued))
               => r.env.recreate_swapchain

\* A redraw whose recreation fails with UnsupportedDimensions hands nothing
\* to the queue and leaves recreate_swapchain set.
UnsupportedDimensionsKeepsFlag ==
    (Running /\ Unwrap(self).recreate_swapchain) =>
        \A acquisition \in Acquisitions : \A flush \in Flushes :
        \A r \in {redraw_events_cleared(Handling, "UnsupportedDimensions",
                                        acquisition, flush)} :
            /\ r.submitted = issued
            /\ r.env.recreate_swapchain
            /\ r.env.panic = None
            /\ r.env.swapchain = Unwrap(self).swapchain
            /\ r.env.pipeline = Unwrap(self).pipeline
            /\ r.env.framebuffers = Unwrap(self).framebuffers

\* C28: once recreate_swapchain has been set (by a Resized event, an
\* OutOfDate or suboptimal acquisition, or an OutOfDate flush) it stays set
\* until a RedrawEventsCleared handler has replaced the swapchain, the
\* pipeline and the framebuffers; a redraw that starts with the flag set
\* submits no draw before that replacement; and a redraw whose recreation
\* fails with UnsupportedDimensions submits no frame and leaves the flag set.
C28_RecreateSwapchain ==
    /\ []SetsFlag
    /\ [][ClearedByReplacement]_vars
    /\ [][DrawsAfterReplacement]_vars
    /\ []UnsupportedDimensionsKeepsFlag

\* The window has been minimised, a redraw has failed to recreate the
\* swapchain for it and left the flag set, after a frame had been drawn.
C28_Witness ==
    /\ Alive
    /\ Unwrap(self).recreate_swapchain
    /\ Unwrap(self).dimensions = <<0, 0>>
    /\ Len(issued) = 1
    /\ Unwrap(self).swapchain = LastFrame.swapchain

\* A redraw that started with the flag set has replaced the swapchain and
\* drawn a frame with it.
C28_WitnessReplaced ==
    /\ Alive
    /\ ~Unwrap(self).recreate_swapchain
    /\ Len(issued) = 1
    /\ LastFrame.swapchain = 1
    /\ LastFrame.pipeline = 1
    /\ LastFrame.framebuffers = 1

\* The swapchain has been recreated twice, the second time for a suboptimal
\* image or an OutOfDate flush after the first.
C28_WitnessTwice ==
    /\ Alive
    /\ Len(issued) = 2
    /\ issued[1].swapchain = 1
    /\ issued[2].swapchain = 2
    /\ Unwrap(self).window = <<4, 3>>
    /\ Unwrap(self).dimensions = <<4, 3>>

\* Every cache of the drawable scene, and the dummy descriptor set, holds a
\* descriptor set created with the pipeline.
CachesOf(pipeline) ==
    /\ \A i \in 1..Len(scene.materials) :
           scene.materials[i].cache.uniform_buffer = Some(desc_set(pipeline))
    /\ \A i \in 1..Len(scene.textures) :
           scene.textures[i].cache.descriptor_set = Some(desc_set(pipeline))
    /\ Unwrap(self).dummy_texture_desc_set = desc_set(pipeline)

\* The descriptor sets of the draw calls of a command buffer were created
\* with the pipeline of the calls.
DrawnWithOwnPipeline(f) ==
    \A k \in 1..Len(f.draws) :
        /\ f.draws[k].material_desc_set = desc_set(f.pipeline)
        /\ f.draws[k].texture_desc_set = desc_set(f.pipeline)

\* C29: at every draw every material and every texture of the drawable
\* scene has a cached descriptor set, and these sets, like the dummy
\* texture descriptor set, were created with the pipeline used for drawing:
\* the caches and the dummy set are rebuilt whenever the pipeline is
\* replaced, so the expectations that a uniform buffer is uploaded and a
\* descriptor set initialized never fail.
C29_CachesOfPipeline ==
    IsSome(self) =>
        /\ Unwrap(self).panic = None => CachesOf(Unwrap(self).pipeline)
        /\ \A k \in 1..Len(issued) : DrawnWithOwnPipeline(issued[k])
        /\ Unwrap(self).panic \notin
               {Some("Material uniform buffer should be uploaded"),
                Some("Descriptor set for texture should be initialized but not")}

\* After a replacement of the pipeline a frame of two draws has been drawn,
\* one with the dummy descriptor set and one with the set of a texture.
C29_Witness ==
    /\ Alive
    /\ Len(issued) > 0
    /\ LastFrame.pipeline = 1
    /\ Len(LastFrame.draws) = 2
    /\ Len(scene.textures) > 0
    /\ IsSome(scene.materials[LastFrame.draws[1].material + 1].diffuse_texture)
           # IsSome(scene.materials[LastFrame.draws[2].material + 1].diffuse_texture)

\* A frame has been drawn with the first pipeline and one with the second.
C29_WitnessBothPipelines ==
    /\ Alive
    /\ Len(issued) = 2
    /\ issued[1].pipeline = 0
    /\ issued[2].pipeline = 1
    /\ Len(issued[2].draws) > 0
    /\ issued[2].draws[1].transparent

\* A transparent draw has been put after an opaque one that the loop met
\* later.
C29_WitnessTransparentLast ==
    /\ Alive
    /\ Len(issued) > 0
    /\ Len(LastFrame.draws) = 2
    /\ LastFrame.draws[1].index_buffer = 1
    /\ LastFrame.draws[2].index_buffer = 0

====
